---- MODULE Spec2Model ----
(***************************************************************************)
(* Model of the conversation state machine of the api-service              *)
(* (backend/service/api-service/conversation_graph.py): the three graph    *)
(* nodes context_analyzer -> conversation_agent -> content_generator, the  *)
(* entry point process_conversation, and a caller that threads the         *)
(* returned context through successive turns.                              *)
(*                                                                         *)
(* Python values are represented as follows.                               *)
(*   str            a TLA+ string                                          *)
(*   dict           a function from keys (strings) to values               *)
(*   list           a sequence                                             *)
(*   None           the record None                                        *)
(*   a JSON value   a tagged record: JStr(s), JNum, JNull, JList(items),   *)
(*                  JDict(fields)                                          *)
(*   a raise        a result record whose field "raised" is TRUE           *)
(***************************************************************************)
EXTENDS Integers, Sequences, FiniteSets, TLC

VARIABLES
    pc,                   \* position of the current process_conversation call
    user_input,           \* argument user_input of the current call
    conversation_history, \* argument conversation_history of the current call
    arg_context,          \* argument user_context of the current call
    state,                \* the ConversationState threaded through the graph
    result,               \* the dict process_conversation returned
    visited,              \* graph nodes run by the current invoke, in order
    gateway_calls,        \* generate_content calls of the current invoke
    turn,                 \* number of calls the caller has started
    threading,            \* how the caller builds the next user_context
    initial_history,      \* content history the session started from
    synth_count,          \* turns of the session whose synthesis succeeded
    retrieval,            \* a MultimodalRetriever.search call in progress
    invocations,          \* process_conversation calls running side by side
    default_history,      \* the list object of the default conversation_history
    extraction            \* an extract_content_from_text call in progress

vars == <<pc, user_input, conversation_history, arg_context, state, result,
          visited, gateway_calls, turn, threading, initial_history, synth_count,
          retrieval, invocations, default_history, extraction>>

\* the variables of the specifications that do not run a single conversation
others == <<retrieval, invocations, default_history, extraction>>

-----------------------------------------------------------------------------
(* Bounds of the model. *)

MaxTurns == 2

-----------------------------------------------------------------------------
(* Python values. *)

None == [t |-> "null"]
JNull == None
JNum(n) == [t |-> "num", n |-> n]
JStr(s) == [t |-> "str", s |-> s]
JList(items) == [t |-> "list", items |-> items]
JDict(fields) == [t |-> "dict", fields |-> fields]
EmptyDict == <<>>

IsStr(v) == v.t = "str"
IsDict(v) == v.t = "dict"

\* dict.get(key, default)
Get(d, key, default) == IF key \in DOMAIN d THEN d[key] ELSE default

\* {**d, key: value}
Put(d, key, value) == (key :> value) @@ d

Max(a, b) == IF a >= b THEN a ELSE b
Min(a, b) == IF a <= b THEN a ELSE b

\* seq[-n:]
LastN(seq, n) == SubSeq(seq, Max(1, Len(seq) - n + 1), Len(seq))

-----------------------------------------------------------------------------
(* Python str operations, computed character by character. *)

UpperCase == "ABCDEFGHIJKLMNOPQRSTUVWXYZ"
LowerCase == "abcdefghijklmnopqrstuvwxyz"

Char(s, i) == SubSeq(s, i, i)

\* the lower-case letter of each upper-case letter
LowerMap ==
    [c \in {Char(UpperCase, i) : i \in 1..Len(UpperCase)} |->
        Char(LowerCase, CHOOSE i \in 1..Len(UpperCase) : Char(UpperCase, i) = c)]

LowerChar(c) == IF c \in DOMAIN LowerMap THEN LowerMap[c] ELSE c

\* str.lower(): each character lowered, halves concatenated
RECURSIVE lower(_)
lower(s) ==
    IF Len(s) = 0 THEN ""
    ELSE IF Len(s) = 1 THEN LowerChar(s)
    ELSE LET half == Len(s) \div 2 IN
         lower(SubSeq(s, 1, half)) \o lower(SubSeq(s, half + 1, Len(s)))

\* k in s
Contains(k, s) ==
    \E i \in 0..(Len(s) - Len(k)) : SubSeq(s, i + 1, i + Len(k)) = k

\* any(keyword in s for keyword in keywords)
AnyIn(keywords, s) == \E j \in 1..Len(keywords) : Contains(keywords[j], s)

IsSpace(c) == c \in {" ", "\n", "\t", "\r"}

Letters == {Char(LowerCase, i) : i \in 1..Len(LowerCase)} \cup DOMAIN LowerMap

IsLetter(c) == c \in Letters

\* str.isalpha()
isalpha(w) == Len(w) > 0 /\ \A i \in 1..Len(w) : IsLetter(Char(w, i))

\* str.split(): the maximal runs of non-whitespace characters; run k goes from
\* the k-th position that starts a run to the last position before whitespace
split(s) ==
    LET n == Len(s)
        starts == {i \in 1..n : ~IsSpace(Char(s, i))
                                 /\ (i = 1 \/ IsSpace(Char(s, i - 1)))}
        start(k) == CHOOSE i \in starts : Cardinality({j \in starts : j < i}) = k - 1
        end(i) == CHOOSE j \in i..n :
                      /\ \A m \in i..j : ~IsSpace(Char(s, m))
                      /\ (j = n \/ IsSpace(Char(s, j + 1)))
    IN [k \in 1..Cardinality(starts) |-> SubSeq(s, start(k), end(start(k)))]

Range(seq) == {seq[i] : i \in 1..Len(seq)}

RECURSIVE join(_, _)
\* sep.join(strs), strs a sequence of strings
join(sep, strs) ==
    IF Len(strs) = 0 THEN ""
    ELSE IF Len(strs) = 1 THEN strs[1]
    ELSE strs[1] \o sep \o join(sep, Tail(strs))

-----------------------------------------------------------------------------
(* Messages: HumanMessage / AIMessage. *)

HumanMessage(content) == [type |-> "human", content |-> content,
                          additional_kwargs |-> EmptyDict]
AIMessage(content) == [type |-> "ai", content |-> content,
                       additional_kwargs |-> EmptyDict]
AIMessageWith(content, structured) ==
    [type |-> "ai", content |-> content,
     additional_kwargs |-> [structured_content |-> structured]]

-----------------------------------------------------------------------------
(* analyze_user_intent *)

intent_modification_keywords ==
    <<"make it", "more", "less", "different", "change", "modify", "update",
      "chaotic", "funnier", "better", "worse", "wilder", "crazier", "dramatic",
      "instead", "but", "however", "actually", "rather">>

intent_content_keywords ==
    <<"create", "generate", "make", "produce", "develop", "come up with",
      "idea", "content", "video", "post", "caption", "hashtag", "trending">>

intent_question_keywords ==
    <<"what", "how", "why", "when", "where", "which", "who",
      "explain", "tell me", "help", "advice", "suggest">>

intent_search_keywords ==
    <<"find", "search", "look for", "trending", "popular", "viral">>

\* analyze_user_intent with the creation keywords checked first
analyze_user_intent_creation_first(input) ==
    LET user_input_lower == lower(input) IN
    IF AnyIn(intent_content_keywords, user_input_lower)
    THEN "content_generation"
    ELSE IF AnyIn(intent_modification_keywords, user_input_lower)
    THEN "content_modification"
    ELSE IF AnyIn(intent_question_keywords, user_input_lower)
    THEN "question"
    ELSE IF AnyIn(intent_search_keywords, user_input_lower)
    THEN "search"
    ELSE "general_conversation"

analyze_user_intent(input) ==
    LET user_input_lower == lower(input) IN
    IF AnyIn(intent_modification_keywords, user_input_lower)
    THEN "content_modification"
    ELSE IF AnyIn(intent_content_keywords, user_input_lower)
    THEN "content_generation"
    ELSE IF AnyIn(intent_question_keywords, user_input_lower)
    THEN "question"
    ELSE IF AnyIn(intent_search_keywords, user_input_lower)
    THEN "search"
    ELSE "general_conversation"

-----------------------------------------------------------------------------
(* analyze_conversation_continuity, extract_recent_topics *)

continuation_keywords ==
    <<"more", "another", "different", "similar", "like that", "chaotic",
      "funnier", "better", "worse", "change", "modify", "update", "improve",
      "variation", "make it", "but", "instead", "also", "what about",
      "how about">>

\* the set of words of the messages that are alphabetic and longer than 4
extract_recent_topics(messages) ==
    UNION { { w \in Range(split(lower(messages[i].content))) :
                Len(w) > 4 /\ isalpha(w) } : i \in 1..Len(messages) }

analyze_conversation_continuity(input, messages, user_context) ==
    LET user_input_lower == lower(input) IN
    IF AnyIn(continuation_keywords, user_input_lower) THEN TRUE
    ELSE IF Len(messages) > 2
         THEN \E topic \in extract_recent_topics(LastN(messages, 6)) :
                 Contains(lower(topic), user_input_lower)
         ELSE FALSE

-----------------------------------------------------------------------------
(* extract_conversation_topic *)

topic_table ==
    << [topic |-> "coffee", keywords |-> <<"coffee", "morning", "caffeine", "brew">>],
       [topic |-> "workout", keywords |-> <<"workout", "fitness", "exercise", "gym">>],
       [topic |-> "cooking", keywords |-> <<"cooking", "recipe", "food", "kitchen">>],
       [topic |-> "dance", keywords |-> <<"dance", "dancing", "choreography", "music">>],
       [topic |-> "transformation",
        keywords |-> <<"before", "after", "transformation", "change">>],
       [topic |-> "morning routine",
        keywords |-> <<"morning", "routine", "wake up", "start day">>],
       [topic |-> "chaos",
        keywords |-> <<"chaotic", "crazy", "wild", "messy", "dramatic">>] >>

RECURSIVE RecentContent(_)
RecentContent(messages) ==
    IF Len(messages) = 0 THEN ""
    ELSE lower(messages[1].content) \o " " \o RecentContent(Tail(messages))

extract_conversation_topic(messages) ==
    IF Len(messages) < 2 THEN "general"
    ELSE LET recent_content == RecentContent(LastN(messages, 6))
             hits == { i \in 1..Len(topic_table) :
                         AnyIn(topic_table[i].keywords, recent_content) }
         IN IF hits = {} THEN "general"
            ELSE topic_table[CHOOSE i \in hits : \A j \in hits : i <= j].topic

-----------------------------------------------------------------------------
(* find_last_content_reference *)

\* content_item.get("data", {}).get(key, default) as a JSON value
DataField(item, key, default) == Get(item.data.fields, key, default)

RECURSIVE FindReference(_, _, _)
\* the loop over reversed(content_history[-3:]), at items[i]
FindReference(input_words, items, i) ==
    IF i < 1 THEN [raised |-> FALSE, value |-> None]
    ELSE IF ~IsDict(items[i].data) THEN [raised |-> TRUE]
    ELSE LET idea == DataField(items[i], "idea", JStr("")) IN
         IF ~IsStr(idea) THEN [raised |-> TRUE]   \* idea.lower() on a non-str
         ELSE IF Cardinality(Range(split(lower(idea.s))) \cap input_words) >= 2
              THEN [raised |-> FALSE, value |-> items[i]]
              ELSE FindReference(input_words, items, i - 1)

find_last_content_reference(input, content_history) ==
    IF Len(content_history) = 0 THEN [raised |-> FALSE, value |-> None]
    ELSE LET recent == LastN(content_history, 3) IN
         FindReference(Range(split(lower(input))), recent, Len(recent))

-----------------------------------------------------------------------------
(* context_analyzer: a graph node, state -> state or a raise *)

context_analyzer(st) ==
    LET messages == st.messages
        user_context == st.user_context
    IN
    IF Len(messages) = 0 THEN [raised |-> FALSE, state |-> st]
    ELSE LET latest_message == messages[Len(messages)] IN
    IF latest_message.type # "human" THEN [raised |-> FALSE, state |-> st]
    ELSE
    LET input == latest_message.content
        intent == analyze_user_intent(input)
        is_continuation == analyze_conversation_continuity(input, messages, user_context)
        reference == find_last_content_reference(
                         input, Get(user_context, "content_history", <<>>))
    IN
    IF reference.raised THEN [raised |-> TRUE]
    ELSE
    LET updated_context ==
            [current_intent |-> intent,
             message_count |-> Len(messages),
             last_user_input |-> input,
             is_continuation |-> is_continuation,
             conversation_topic |-> extract_conversation_topic(messages),
             last_content_reference |-> reference.value] @@ user_context
    IN [raised |-> FALSE,
        state |-> [st EXCEPT !.user_context = updated_context]]

-----------------------------------------------------------------------------
(* create_system_prompt, build_conversation_context: the instruction text is
   kept as the list of the blocks it is made of; a block that formats a value
   of the context carries that value. *)

\* ", ".join(selected_platforms) raises on a list with a non-str element
PlatformsJoinable(platforms) == \A i \in 1..Len(platforms) : IsStr(platforms[i])

PlatformNames(platforms) == [i \in 1..Len(platforms) |-> platforms[i].s]

\* last_content_ref.get("data", {}).get("idea", "")
ReferenceIdea(ref) == DataField(ref, "idea", JStr(""))

create_system_prompt(user_context) ==
    LET selected_platforms == Get(user_context, "selected_platforms", <<>>)
        last_content_ref == Get(user_context, "last_content_reference", None)
        content_count == Get(user_context, "content_generation_count", 0)
        current_intent == Get(user_context, "current_intent", "")
        continuity ==
            IF Get(user_context, "is_continuation", FALSE)
            THEN <<[block |-> "CONTINUITY ALERT",
                    value |-> Get(user_context, "conversation_topic",
                                  "the previous topic")]>>
                 \o (IF last_content_ref # None
                     THEN <<[block |-> "LAST CONTENT DISCUSSED",
                             value |-> ReferenceIdea(last_content_ref)]>>
                     ELSE <<>>)
            ELSE <<>>
        count == IF content_count > 0
                 THEN <<[block |-> "CONVERSATION CONTEXT",
                         value |-> content_count + 1]>>
                 ELSE <<>>
        trending == IF Len(Get(user_context, "trending_content", <<>>)) > 0
                    THEN <<[block |-> "TRENDING CONTEXT",
                            value |-> Len(user_context.trending_content)]>>
                    ELSE <<>>
        intent == IF current_intent = "content_modification"
                  THEN <<[block |-> "USER INTENT", value |-> "modify"]>>
                  ELSE IF current_intent = "content_generation"
                  THEN <<[block |-> "USER INTENT", value |-> "new"]>>
                  ELSE <<>>
    IN
    IF Len(selected_platforms) > 0 /\ ~PlatformsJoinable(selected_platforms)
    THEN [raised |-> TRUE]
    ELSE [raised |-> FALSE,
          value |-> <<[block |-> "base_prompt", value |-> ""]>>
                    \o continuity \o count
                    \o (IF Len(selected_platforms) > 0
                        THEN <<[block |-> "TARGET PLATFORMS",
                                value |-> join(", ", PlatformNames(selected_platforms))]>>
                        ELSE <<>>)
                    \o trending \o intent]

build_conversation_context(messages, user_context) ==
    LET selected_platforms == Get(user_context, "selected_platforms", <<>>)
        last_content_ref == Get(user_context, "last_content_reference", None)
        content_history == Get(user_context, "content_history", <<>>)
        history == IF Len(messages) > 1
                   THEN <<[block |-> "RECENT CONVERSATION HISTORY",
                           value |-> SubSeq(messages, Max(1, Len(messages) - 7),
                                            Len(messages) - 1)]>>
                   ELSE <<>>
        continuity ==
            IF Get(user_context, "is_continuation", FALSE)
            THEN <<[block |-> "CONTINUITY ALERT",
                    value |-> Get(user_context, "conversation_topic", "unknown")]>>
                 \o (IF last_content_ref # None
                     THEN <<[block |-> "referencing",
                             value |-> ReferenceIdea(last_content_ref)]>>
                     ELSE <<>>)
            ELSE <<>>
        contents ==
            IF Len(content_history) > 0
            THEN <<[block |-> "CONTENT HISTORY", value |-> Len(content_history)],
                   [block |-> "Most recent",
                    value |-> DataField(content_history[Len(content_history)],
                                        "idea", JStr("No idea"))]>>
            ELSE <<>>
    IN
    IF Len(content_history) > 0
       /\ ~IsDict(content_history[Len(content_history)].data)
    THEN [raised |-> TRUE]
    ELSE IF Len(selected_platforms) > 0 /\ ~PlatformsJoinable(selected_platforms)
    THEN [raised |-> TRUE]
    ELSE [raised |-> FALSE,
          value |-> history \o continuity \o contents
                    \o (IF Len(selected_platforms) > 0
                        THEN <<[block |-> "PLATFORMS",
                                value |-> join(", ", PlatformNames(selected_platforms))]>>
                        ELSE <<>>)]

-----------------------------------------------------------------------------
(* should_generate_content_check, extract_content_prompt *)

content_request_keywords ==
    <<"create content", "generate content", "make content", "content idea",
      "video idea", "post idea", "create a video", "make a video",
      "content strategy", "viral idea", "trending content", "morning coffee",
      "coffee", "workout", "cooking", "dance", "transformation", "routine">>

more_content_keywords ==
    <<"more", "different", "another", "chaotic", "funnier", "better">>

\* the decision also looking for an idea in the reply text
should_generate_content_check_reading_reply(response_content, user_context) ==
    \/ Get(user_context, "current_intent", "")
          \in {"content_modification", "content_generation"}
    \/ Contains("idea", lower(response_content))

should_generate_content_check(response_content, user_context) ==
    LET input == lower(Get(user_context, "last_user_input", ""))
        current_intent == Get(user_context, "current_intent", "")
    IN
    IF current_intent = "content_modification" THEN TRUE
    ELSE IF current_intent = "content_generation" THEN TRUE
    ELSE IF AnyIn(content_request_keywords, input) THEN TRUE
    ELSE IF Get(user_context, "is_continuation", FALSE)
            /\ Get(user_context, "conversation_topic", "None") # "general"
    THEN TRUE
    ELSE IF Len(Get(user_context, "content_history", <<>>)) > 0
            /\ AnyIn(more_content_keywords, input)
    THEN TRUE
    ELSE FALSE

\* str(value) inside an f-string, for the JSON values an idea can be
Format(v) == IF v.t = "str" THEN v.s
             ELSE IF v.t = "num" THEN ToString(v.n)
             ELSE IF v.t = "null" THEN "None"
             ELSE "[...]"

extract_content_prompt(response_content, user_context) ==
    LET input == Get(user_context, "last_user_input", "")
        last_content_ref == Get(user_context, "last_content_reference", None)
        selected_platforms == Get(user_context, "selected_platforms", <<>>)
        base == "Create viral social media content based on this request: " \o input
        continuation ==
            IF Get(user_context, "is_continuation", FALSE)
            THEN "\n\nIMPORTANT: This is a modification of previous content about "
                 \o Get(user_context, "conversation_topic", "the previous topic")
                 \o (IF last_content_ref # None
                     THEN "\n\nPREVIOUS CONTENT TO MODIFY:\nIdea: "
                          \o Format(ReferenceIdea(last_content_ref))
                          \o "\nStructure: "
                          \o Format(DataField(last_content_ref, "videoStructure",
                                              JStr("")))
                          \o "\n\nUser wants to modify this content. Apply their specific requested changes while maintaining the core concept."
                     ELSE "")
            ELSE ""
        platforms ==
            IF Len(selected_platforms) > 0
            THEN "\n\nOptimize for: " \o join(", ", PlatformNames(selected_platforms))
            ELSE ""
    IN base \o continuation \o platforms

-----------------------------------------------------------------------------
(* conversation_agent: a graph node.  reply is what generate_content does
   when it is called: it raises or returns a response with a text. *)

DialogueDefaultText == "I'm having trouble processing your request."
DialogueFallback == "I'm having trouble processing your request. Please try again."

GatewayCall(node, contents, reply) ==
    [node |-> node, contents |-> contents, raised |-> reply.raised,
     text |-> reply.text]

\* the except branch also clearing the generation flag
AgentFailureClearsFlag(st) ==
    [st EXCEPT !.messages = Append(@, AIMessage(DialogueFallback)),
               !.user_context = Put(@, "needs_content_generation", FALSE)]

\* the except branch: lines 239-245
AgentFailure(st) ==
    [st EXCEPT !.messages = Append(@, AIMessage(DialogueFallback))]

\* preserved_context built without the existing context
AgentSuccessContextReplaced(user_context, should_generate_content, response_content) ==
    LET preserved_context ==
            [needs_content_generation |-> should_generate_content,
             last_response |-> response_content]
    IN IF should_generate_content
       THEN Put(preserved_context, "content_prompt",
                extract_content_prompt(response_content, user_context))
       ELSE preserved_context

\* preserved_context: lines 223-231
AgentSuccessContext(user_context, should_generate_content, response_content) ==
    LET preserved_context ==
            [needs_content_generation |-> should_generate_content,
             last_response |-> response_content] @@ user_context
    IN IF should_generate_content
       THEN Put(preserved_context, "content_prompt",
                extract_content_prompt(response_content, user_context))
       ELSE preserved_context

conversation_agent(st, reply) ==
    LET messages == st.messages
        user_context == st.user_context
    IN
    IF Len(messages) = 0 THEN [raised |-> FALSE, state |-> st, calls |-> <<>>]
    ELSE
    LET system_prompt == create_system_prompt(user_context)
        latest_message == messages[Len(messages)]
    IN
    IF system_prompt.raised THEN [raised |-> TRUE]
    ELSE IF latest_message.type # "human"
    THEN [raised |-> FALSE, state |-> st, calls |-> <<>>]
    ELSE
    LET input == latest_message.content
        conversation_context == build_conversation_context(messages, user_context)
    IN
    IF conversation_context.raised THEN [raised |-> TRUE]
    ELSE
    LET call == GatewayCall("conversation_agent", input, reply) IN
    IF reply.raised
    THEN [raised |-> FALSE, state |-> AgentFailure(st), calls |-> <<call>>]
    ELSE
    LET response_content == IF reply.text # "" THEN reply.text
                            ELSE DialogueDefaultText
        should_generate_content ==
            should_generate_content_check(response_content, user_context)
        new_context ==
            AgentSuccessContext(user_context, should_generate_content,
                                response_content)
    IN [raised |-> FALSE,
        state |-> [st EXCEPT !.messages = Append(@, AIMessage(response_content)),
                             !.user_context = new_context],
        calls |-> <<call>>]

-----------------------------------------------------------------------------
(* More str operations, used by extract_content_from_text. *)

Whitespace == {" ", "\n", "\t", "\r"}

RECURSIVE LStripChars(_, _)
LStripChars(s, chars) ==
    IF Len(s) > 0 /\ Char(s, 1) \in chars
    THEN LStripChars(SubSeq(s, 2, Len(s)), chars)
    ELSE s

RECURSIVE RStripChars(_, _)
RStripChars(s, chars) ==
    IF Len(s) > 0 /\ Char(s, Len(s)) \in chars
    THEN RStripChars(SubSeq(s, 1, Len(s) - 1), chars)
    ELSE s

\* str.strip(chars)
StripChars(s, chars) == RStripChars(LStripChars(s, chars), chars)

\* str.strip()
strip(s) == StripChars(s, Whitespace)

\* str.split(sep), sep one character: the text before the first separator,
\* between successive separators, and after the last one (empty pieces kept)
SplitOn(s, sep) ==
    LET n == Len(s)
        seps == {i \in 1..n : Char(s, i) = sep}
        \* position of the k-th separator; 0 before the first, n + 1 after the last
        at(k) == IF k = 0 THEN 0
                 ELSE IF k > Cardinality(seps) THEN n + 1
                 ELSE CHOOSE i \in seps : Cardinality({j \in seps : j < i}) = k - 1
    IN [k \in 1..(Cardinality(seps) + 1) |-> SubSeq(s, at(k - 1) + 1, at(k) - 1)]

\* str.split(sep, 1)[1], for s containing sep
AfterFirst(s, sep) ==
    LET i == CHOOSE k \in 1..Len(s) :
                 Char(s, k) = sep /\ \A j \in 1..(k - 1) : Char(s, j) # sep
    IN SubSeq(s, i + 1, Len(s))

\* str.startswith(prefix)
startswith(s, prefix) ==
    Len(s) >= Len(prefix) /\ SubSeq(s, 1, Len(prefix)) = prefix

\* list(s): the characters of s
Chars(s) == [i \in 1..Len(s) |-> Char(s, i)]

\* [f(x) for x in seq if P(x)]
RECURSIVE SelectWords(_)
SelectWords(words) ==
    IF Len(words) = 0 THEN <<>>
    ELSE (IF startswith(words[1], "#")
          THEN <<StripChars(words[1], {"#"})>> ELSE <<>>)
         \o SelectWords(Tail(words))

-----------------------------------------------------------------------------
(* extract_content_from_text *)

section_keywords == <<"idea", "structure", "caption", "hashtag">>

ExtractDefaults ==
    [idea |-> "Content idea extracted from conversation",
     videoStructure |-> "Video structure based on the discussion",
     caption |-> "Engaging caption for the content",
     hashtags |-> <<"viral", "trending", "content">>]

\* one iteration of the loop over the lines: acc = [content, current_section]
ExtractLine(acc, raw_line) ==
    LET line == strip(raw_line)
        low == lower(line)
        colon == Contains(":", line)
    IN
    IF line = "" THEN acc
    ELSE IF Contains("idea", low) /\ colon
    THEN [content |-> [acc.content EXCEPT !.idea = strip(AfterFirst(line, ":"))],
          current_section |-> "idea"]
    ELSE IF Contains("structure", low) /\ colon
    THEN [content |-> [acc.content EXCEPT
                          !.videoStructure = strip(AfterFirst(line, ":"))],
          current_section |-> "videoStructure"]
    ELSE IF Contains("caption", low) /\ colon
    THEN [content |-> [acc.content EXCEPT !.caption = strip(AfterFirst(line, ":"))],
          current_section |-> "caption"]
    ELSE IF Contains("hashtag", low) /\ colon
    THEN LET hashtags == SelectWords(split(line)) IN
         [content |-> IF Len(hashtags) > 0
                      THEN [acc.content EXCEPT !.hashtags = hashtags]
                      ELSE acc.content,
          current_section |-> "hashtags"]
    ELSE IF acc.current_section # "" /\ ~AnyIn(section_keywords, low)
    THEN \* content[current_section] += " " + line; on the list of hashtags
         \* += extends the list with the characters of the string
         [content |->
             IF acc.current_section = "hashtags"
             THEN [acc.content EXCEPT !.hashtags = @ \o Chars(" " \o line)]
             ELSE [acc.content EXCEPT ![acc.current_section] = @ \o " " \o line],
          current_section |-> acc.current_section]
    ELSE acc

RECURSIVE ExtractLoop(_, _)
ExtractLoop(acc, lines) ==
    IF Len(lines) = 0 THEN acc
    ELSE ExtractLoop(ExtractLine(acc, lines[1]), Tail(lines))

\* the dict returned, as a JSON value
extract_content_from_text(text) ==
    LET content == ExtractLoop([content |-> ExtractDefaults, current_section |-> ""],
                               SplitOn(text, "\n")).content
    IN JDict([idea |-> JStr(content.idea),
              videoStructure |-> JStr(content.videoStructure),
              caption |-> JStr(content.caption),
              hashtags |-> JList([i \in 1..Len(content.hashtags) |->
                                     JStr(content.hashtags[i])])])

-----------------------------------------------------------------------------
(* json.loads on the texts the gateway of the model returns: the texts that
   are JSON documents, each with the value it decodes to; json.loads raises
   JSONDecodeError on every other text of the model. *)

FullJsonText ==
    "{\"idea\": \"Chaotic coffee morning\", \"videoStructure\": \"Fast cuts\", \"caption\": \"Wake up\", \"hashtags\": [\"coffee\", \"chaos\"]}"
FullJsonValue ==
    JDict([idea |-> JStr("Chaotic coffee morning"),
           videoStructure |-> JStr("Fast cuts"),
           caption |-> JStr("Wake up"),
           hashtags |-> JList(<<JStr("coffee"), JStr("chaos")>>)])

PartialJsonText == "{\"idea\": \"Coffee speedrun\"}"
PartialJsonValue == JDict([idea |-> JStr("Coffee speedrun")])

NumberIdeaJsonText == "{\"idea\": 5, \"hashtags\": []}"
NumberIdeaJsonValue == JDict([idea |-> JNum(5), hashtags |-> JList(<<>>)])

NullHashtagsJsonText == "{\"idea\": \"Latte art\", \"hashtags\": null}"
NullHashtagsJsonValue == JDict([idea |-> JStr("Latte art"), hashtags |-> JNull])

NumberJsonText == "42"
NumberJsonValue == JNum(42)

SectionsText == "Idea: Coffee chaos\nCaption: Wake up wild\nHashtags: #coffee #chaos"

JsonDocuments ==
    (FullJsonText :> FullJsonValue) @@ (PartialJsonText :> PartialJsonValue)
    @@ (NumberIdeaJsonText :> NumberIdeaJsonValue)
    @@ (NullHashtagsJsonText :> NullHashtagsJsonValue)
    @@ (NumberJsonText :> NumberJsonValue)

json_loads(text) ==
    IF text \in DOMAIN JsonDocuments
    THEN [raised |-> FALSE, value |-> JsonDocuments[text]]
    ELSE [raised |-> TRUE]

-----------------------------------------------------------------------------
(* create_content_system_prompt, build_content_generation_context,
   format_content_response *)

\* [item.get("data", {}).get("idea", "") for item in content_history[-3:]]
RecentIdeas(content_history) ==
    LET recent == LastN(content_history, 3) IN
    [i \in 1..Len(recent) |-> DataField(recent[i], "idea", JStr(""))]

create_content_system_prompt(user_context, content_history) ==
    LET last_content_ref == Get(user_context, "last_content_reference", None)
        recent_ideas == RecentIdeas(content_history)
        continuity ==
            IF Get(user_context, "is_continuation", FALSE)
            THEN <<[block |-> "CONTINUITY ALERT",
                    value |-> Get(user_context, "conversation_topic",
                                  "the previous topic")]>>
                 \o (IF last_content_ref # None
                     THEN <<[block |-> "PREVIOUS CONTENT TO BUILD UPON",
                             value |-> ReferenceIdea(last_content_ref)]>>
                     ELSE <<>>)
            ELSE <<>>
    IN
    IF \E i \in 1..Len(content_history) :
           i > Len(content_history) - 3 /\ ~IsDict(content_history[i].data)
    THEN [raised |-> TRUE]
    ELSE IF \E i \in 1..Len(recent_ideas) : ~IsStr(recent_ideas[i])
    THEN [raised |-> TRUE]      \* '; '.join(recent_ideas) on a non-str idea
    ELSE [raised |-> FALSE,
          value |-> <<[block |-> "base_prompt", value |-> ""]>> \o continuity
                    \o (IF Len(content_history) > 0
                        THEN <<[block |-> "RECENT CONTENT HISTORY",
                                value |-> join("; ", [i \in 1..Len(recent_ideas) |->
                                                         recent_ideas[i].s])]>>
                        ELSE <<>>)]

generation_modification_keywords ==
    <<"chaotic", "funnier", "more", "better", "different", "wilder", "crazier">>

build_content_generation_context(messages, user_context, content_history) ==
    LET last_user_input == Get(user_context, "last_user_input", "")
        selected_platforms == Get(user_context, "selected_platforms", <<>>)
        request == IF last_user_input # ""
                   THEN <<[block |-> "USER REQUEST", value |-> last_user_input]>>
                   ELSE <<>>
        found_keywords ==
            LET low == lower(last_user_input) IN
            SelectSeq(generation_modification_keywords,
                      LAMBDA kw : Contains(kw, low))
        modification ==
            IF Get(user_context, "is_continuation", FALSE)
            THEN <<[block |-> "MODIFICATION REQUEST", value |-> ""]>>
                 \o (IF Len(found_keywords) > 0
                     THEN <<[block |-> "Specifically",
                             value |-> join(", ", found_keywords)]>>
                     ELSE <<>>)
            ELSE <<>>
    IN
    IF Len(selected_platforms) > 0 /\ ~PlatformsJoinable(selected_platforms)
    THEN [raised |-> TRUE]
    ELSE [raised |-> FALSE,
          value |-> request \o modification
                    \o (IF Len(selected_platforms) > 0
                        THEN <<[block |-> "TARGET PLATFORMS",
                                value |-> join(", ", PlatformNames(selected_platforms))]>>
                        ELSE <<>>)]

\* ['#' + tag for tag in hashtags]: a list gives its elements, a str its
\* characters; anything else of the model is not iterable
HashtagsIterable(h) ==
    \/ h.t = "str"
    \/ h.t = "list" /\ \A i \in 1..Len(h.items) : IsStr(h.items[i])

HashtagTags(h) ==
    IF h.t = "str" THEN Chars(h.s)
    ELSE [i \in 1..Len(h.items) |-> h.items[i].s]

format_content_response(content_data, user_context) ==
    IF ~IsDict(content_data) THEN [raised |-> TRUE]   \* content_data.get
    ELSE
    LET fields == content_data.fields
        hashtags == Get(fields, "hashtags", JList(<<>>))
    IN
    IF ~HashtagsIterable(hashtags) THEN [raised |-> TRUE]
    ELSE
    LET tags == HashtagTags(hashtags)
        base_response ==
            "Here's a viral content idea for you:\n\n**Idea:** "
            \o Format(Get(fields, "idea", JStr("No idea generated")))
            \o "\n\n**Video Structure:** "
            \o Format(Get(fields, "videoStructure", JStr("No structure provided")))
            \o "\n\n**Caption:** "
            \o Format(Get(fields, "caption", JStr("No caption generated")))
            \o "\n\n**Hashtags:** "
            \o join(", ", [i \in 1..Len(tags) |-> "#" \o tags[i]])
    IN
    [raised |-> FALSE,
     value |-> IF Get(user_context, "is_continuation", FALSE)
                  /\ Get(user_context, "content_generation_count", 0) > 0
               THEN "Building on our previous idea with your requested changes:\n\n"
                    \o base_response
               ELSE base_response]

-----------------------------------------------------------------------------
(* content_generator: a graph node.  It never raises: everything after the
   flag check runs inside its try block. *)

SynthesisFallback == "I'm having trouble generating content. Please try again."

\* whether the node gets as far as calling generate_content
ReachesSynthesisCall(st) ==
    /\ Get(st.user_context, "needs_content_generation", FALSE)
    /\ Get(st.user_context, "content_prompt", "") # ""
    /\ ~create_content_system_prompt(st.user_context, st.content_history).raised
    /\ ~build_content_generation_context(st.messages, st.user_context,
                                         st.content_history).raised

\* the new item put in front of the history
PrependContent(content_history, new_content) == <<new_content>> \o content_history

\* updated_content_history: line 348
AppendContent(content_history, new_content) == content_history \o <<new_content>>

\* the except branch also clearing the generation flag
SynthesisFailureClearsFlag(st) ==
    [st EXCEPT !.messages = Append(@, AIMessage(SynthesisFallback)),
               !.user_context = Put(@, "needs_content_generation", FALSE)]

\* the except branch: lines 373-379
SynthesisFailure(st) ==
    [st EXCEPT !.messages = Append(@, AIMessage(SynthesisFallback))]

content_generator(st, reply, now) ==
    LET messages == st.messages
        user_context == st.user_context
        content_history == st.content_history
        content_prompt == Get(user_context, "content_prompt", "")
        failed(calls) == [state |-> SynthesisFailure(st), calls |-> calls]
    IN
    IF ~Get(user_context, "needs_content_generation", FALSE)
    THEN [state |-> st, calls |-> <<>>]
    ELSE IF content_prompt = "" THEN [state |-> st, calls |-> <<>>]
    ELSE IF ~ReachesSynthesisCall(st) THEN failed(<<>>)
    ELSE
    LET call == GatewayCall("content_generator", content_prompt, reply) IN
    IF reply.raised THEN failed(<<call>>)
    ELSE
    LET content_text == reply.text
        parsed == json_loads(content_text)
        content_data == IF parsed.raised
                        THEN extract_content_from_text(content_text)
                        ELSE parsed.value
        last_content_ref == Get(user_context, "last_content_reference", None)
        new_content ==
            [id |-> "content_" \o ToString(Len(content_history) + 1),
             timestamp |-> now,
             data |-> content_data,
             prompt |-> content_prompt,
             conversation_topic |-> Get(user_context, "conversation_topic", "general"),
             is_continuation |-> Get(user_context, "is_continuation", FALSE),
             referenced_content |-> IF last_content_ref # None
                                    THEN JStr(last_content_ref.id)
                                    ELSE None]
        updated_content_history == AppendContent(content_history, new_content)
        response_content == format_content_response(content_data, user_context)
    IN
    IF response_content.raised THEN failed(<<call>>)
    ELSE
    LET updated_context ==
            [needs_content_generation |-> FALSE,
             last_generated_content |-> content_data,
             content_generation_count |->
                 Get(user_context, "content_generation_count", 0) + 1]
            @@ user_context
    IN [state |-> [st EXCEPT
                      !.messages = Append(@, AIMessageWith(response_content.value,
                                                            content_data)),
                      !.content_history = updated_content_history,
                      !.user_context = updated_context],
        calls |-> <<call>>]

-----------------------------------------------------------------------------
(* create_conversation_graph: the edges of the compiled graph. *)

\* the graph with content_generator left out of the flow
graph_edges_without_generator ==
    [START |-> "context_analyzer",
     context_analyzer |-> "conversation_agent",
     conversation_agent |-> "END",
     content_generator |-> "END"]

graph_edges ==
    [START |-> "context_analyzer",
     context_analyzer |-> "conversation_agent",
     conversation_agent |-> "content_generator",
     content_generator |-> "END"]

-----------------------------------------------------------------------------
(* process_conversation *)

\* conversation_history converted to messages, plus the new user message
RECURSIVE ConvertHistory(_)
ConvertHistory(history) ==
    IF Len(history) = 0 THEN <<>>
    ELSE (IF history[1].type = "user" THEN <<HumanMessage(history[1].content)>>
          ELSE IF history[1].type = "assistant"
          THEN <<AIMessage(history[1].content)>>
          ELSE <<>>)
         \o ConvertHistory(Tail(history))

\* Python truth value of the user_context argument
Truthy(context) == context # None /\ DOMAIN context # {}

\* initial_state starting every call from an empty content history
InitialStateWithoutHistory(input, history, context) ==
    [messages |-> Append(ConvertHistory(history), HumanMessage(input)),
     user_context |-> IF context # None THEN context ELSE EmptyDict,
     content_history |-> <<>>,
     conversation_summary |-> IF Truthy(context)
                              THEN Get(context, "conversation_summary", None)
                              ELSE None]

InitialState(input, history, context) ==
    [messages |-> Append(ConvertHistory(history), HumanMessage(input)),
     user_context |-> IF context # None THEN context ELSE EmptyDict,
     content_history |-> IF Truthy(context)
                         THEN Get(context, "content_history", <<>>)
                         ELSE <<>>,
     conversation_summary |-> IF Truthy(context)
                              THEN Get(context, "conversation_summary", None)
                              ELSE None]

\* the dict built from the first message appended after the user's, not the last
SuccessResultFromFirstReply(final) ==
    LET final_messages == final.messages
        asked == CHOOSE i \in 1..Len(final_messages) :
                    /\ final_messages[i].type = "human"
                    /\ \A j \in (i + 1)..Len(final_messages) :
                          final_messages[j].type # "human"
        final_response == final_messages[Min(asked + 1, Len(final_messages))]
    IN [success |-> TRUE,
        response |-> final_response.content,
        structured_content |->
            Get(final_response.additional_kwargs, "structured_content", None),
        conversation_context |-> final.user_context,
        content_history |-> final.content_history]

\* the dict returned after graph.invoke returned
SuccessResult(final) ==
    LET final_messages == final.messages
        final_response == IF Len(final_messages) > 0
                          THEN final_messages[Len(final_messages)]
                          ELSE AIMessage(DialogueDefaultText)
    IN [success |-> TRUE,
        response |-> final_response.content,
        structured_content |->
            IF DOMAIN final_response.additional_kwargs # {}
            THEN Get(final_response.additional_kwargs, "structured_content", None)
            ELSE None,
        conversation_context |-> final.user_context,
        content_history |-> final.content_history]

\* the except branch returning the state the graph had reached
ErrorResultPartialState(error, context) ==
    [success |-> FALSE,
     error |-> error,
     response |-> DialogueFallback,
     structured_content |-> None,
     conversation_context |-> state.user_context,
     content_history |-> state.content_history]

\* the dict returned by the except branch
ErrorResult(error, context) ==
    [success |-> FALSE,
     error |-> error,
     response |-> DialogueFallback,
     structured_content |-> None,
     conversation_context |-> IF Truthy(context) THEN context ELSE EmptyDict,
     content_history |-> IF Truthy(context)
                         THEN Get(context, "content_history", <<>>)
                         ELSE <<>>]

-----------------------------------------------------------------------------
(* The inputs of the model. *)

UserInputs ==
    {"Create a viral coffee morning routine idea",
     "make it more chaotic",
     "hello there"}

DialogueReplies ==
    {[raised |-> TRUE, text |-> ""],
     [raised |-> FALSE, text |-> ""],
     [raised |-> FALSE, text |-> "Great, let's plan that."],
     [raised |-> FALSE, text |-> PartialJsonText]}

SynthesisReplies ==
    {[raised |-> TRUE, text |-> ""]}
    \cup {[raised |-> FALSE, text |-> t] :
             t \in {FullJsonText, PartialJsonText, NumberIdeaJsonText,
                    NullHashtagsJsonText, NumberJsonText, SectionsText, ""}}

NoReply == [raised |-> TRUE, text |-> ""]

EarlierItem ==
    [id |-> "content_1", timestamp |-> 0,
     data |-> JDict([idea |-> JStr("Coffee morning chaos"),
                     videoStructure |-> JStr("Slow pan"),
                     caption |-> JStr("Rise"),
                     hashtags |-> JList(<<JStr("coffee")>>)]),
     prompt |-> "Create viral social media content based on this request: coffee",
     conversation_topic |-> "general", is_continuation |-> FALSE,
     referenced_content |-> None]

InitialContexts ==
    {None,
     [selected_platforms |-> <<JStr("tiktok")>>],
     [selected_platforms |-> <<JNum(5)>>],
     [selected_platforms |-> <<JStr("TikTok")>>, trending_content |-> <<>>,
      session_id |-> "abc", content_history |-> <<EarlierItem>>]}

\* how a caller builds the user_context of its next call from a result:
\* as the repository's test does, or also carrying the returned content_history
Threadings == {"context_only", "with_history"}

NextContext(mode, res) ==
    IF mode = "context_only" THEN res.conversation_context
    ELSE Put(res.conversation_context, "content_history", res.content_history)

NextHistory(history, input, res) ==
    history \o <<[type |-> "user", content |-> input],
                 [type |-> "assistant", content |-> res.response]>>

-----------------------------------------------------------------------------
(* The state machine: a caller making up to MaxTurns calls, each call running
   the graph node by node. *)

NoState == [messages |-> <<>>, user_context |-> EmptyDict,
            content_history |-> <<>>, conversation_summary |-> None]

Init ==
    /\ pc = "idle"
    /\ user_input = ""
    /\ conversation_history = <<>>
    /\ arg_context \in InitialContexts
    /\ state = NoState
    /\ result = None
    /\ visited = <<>>
    /\ gateway_calls = <<>>
    /\ turn = 0
    /\ threading \in Threadings
    /\ initial_history = IF Truthy(arg_context)
                         THEN Get(arg_context, "content_history", <<>>)
                         ELSE <<>>
    /\ synth_count = 0
    /\ retrieval = None /\ invocations = None /\ default_history = <<>>
    /\ extraction = None

\* the caller calls process_conversation: lines 680-700
Call(input) ==
    /\ pc = "idle"
    /\ turn < MaxTurns
    /\ LET history == IF turn = 0 THEN conversation_history
                      ELSE NextHistory(conversation_history, user_input, result)
           context == IF turn = 0 THEN arg_context
                      ELSE NextContext(threading, result)
       IN /\ user_input' = input
          /\ conversation_history' = history
          /\ arg_context' = context
          /\ state' = InitialState(input, history, context)
    /\ pc' = graph_edges["START"]
    /\ turn' = turn + 1
    /\ visited' = <<>>
    /\ gateway_calls' = <<>>
    /\ UNCHANGED <<result, threading, initial_history, synth_count>>
    /\ UNCHANGED others

\* the except branch of process_conversation: lines 723-732
Raise(node) ==
    /\ pc' = "idle"
    /\ result' = ErrorResult(node, arg_context)
    /\ UNCHANGED state

ContextAnalyzer ==
    /\ pc = "context_analyzer"
    /\ visited' = Append(visited, "context_analyzer")
    /\ LET out == context_analyzer(state) IN
       IF out.raised THEN Raise("context_analyzer")
       ELSE /\ state' = out.state
            /\ pc' = graph_edges["context_analyzer"]
            /\ UNCHANGED result
    /\ UNCHANGED <<user_input, conversation_history, arg_context, gateway_calls,
                   turn, threading, initial_history, synth_count>>
    /\ UNCHANGED others

\* whether conversation_agent gets as far as calling generate_content
ReachesDialogueCall(st) ==
    /\ Len(st.messages) > 0
    /\ st.messages[Len(st.messages)].type = "human"
    /\ ~create_system_prompt(st.user_context).raised
    /\ ~build_conversation_context(st.messages, st.user_context).raised

ConversationAgent ==
    /\ pc = "conversation_agent"
    /\ visited' = Append(visited, "conversation_agent")
    /\ \E reply \in IF ReachesDialogueCall(state) THEN DialogueReplies ELSE {NoReply} :
          LET out == conversation_agent(state, reply) IN
          IF out.raised
          THEN Raise("conversation_agent") /\ UNCHANGED gateway_calls
          ELSE /\ state' = out.state
               /\ gateway_calls' = gateway_calls \o out.calls
               /\ pc' = graph_edges["conversation_agent"]
               /\ UNCHANGED result
    /\ UNCHANGED <<user_input, conversation_history, arg_context,
                   turn, threading, initial_history, synth_count>>
    /\ UNCHANGED others

\* the last message is the one a successful synthesis appends
Synthesized(st) ==
    /\ Len(st.messages) > 0
    /\ "structured_content" \in DOMAIN st.messages[Len(st.messages)].additional_kwargs

ContentGenerator ==
    /\ pc = "content_generator"
    /\ visited' = Append(visited, "content_generator")
    /\ \E reply \in IF ReachesSynthesisCall(state) THEN SynthesisReplies ELSE {NoReply} :
          LET out == content_generator(state, reply, turn) IN
          /\ state' = out.state
          /\ gateway_calls' = gateway_calls \o out.calls
          /\ synth_count' = IF Synthesized(out.state) THEN synth_count + 1
                            ELSE synth_count
    /\ pc' = graph_edges["content_generator"]
    /\ UNCHANGED <<user_input, conversation_history, arg_context, result,
                   turn, threading, initial_history>>
    /\ UNCHANGED others

\* graph.invoke returned: lines 703-721
Return ==
    /\ pc = "END"
    /\ result' = SuccessResult(state)
    /\ pc' = "idle"
    /\ UNCHANGED <<user_input, conversation_history, arg_context, state, visited,
                   gateway_calls, turn, threading, initial_history, synth_count>>
    /\ UNCHANGED others

Next ==
    \/ \E input \in UserInputs : Call(input)
    \/ ContextAnalyzer
    \/ ConversationAgent
    \/ ContentGenerator
    \/ Return

Spec == Init /\ [][Next]_vars

-----------------------------------------------------------------------------
(* The Context Extractor alone, on a wider set of messages and histories. *)

ExtractorInputs ==
    {"Make it MORE chaotic video",
     "Create a viral coffee morning routine idea",
     "What is trending",
     "How do I start",
     "find popular songs",
     "hello there",
     "pineapple",
     "coffee please",
     "WHY is it viral",
     "a button",
     "Can you give me another idea?",
     "make it more chaotic"}

User(content) == [type |-> "user", content |-> content]
Assistant(content) == [type |-> "assistant", content |-> content]

ExtractorHistories ==
    {<<>>,
     <<User("I want coffee content")>>,
     <<User("hi"), Assistant("hello")>>,
     <<User("I want coffee content"), Assistant("Sure thing")>>,
     <<User("I love pineapple"), Assistant("ok"), User("hi"), Assistant("ok"),
       User("yo")>>,
     <<User("pineapple"), Assistant("ok"), User("hi"), Assistant("ok"),
       User("hi"), Assistant("ok"), User("yo")>>}

InitExtractor ==
    /\ pc = "context_analyzer"
    /\ user_input \in ExtractorInputs
    /\ conversation_history \in ExtractorHistories
    /\ arg_context \in {None, [content_history |-> <<EarlierItem>>]}
    /\ state = InitialState(user_input, conversation_history, arg_context)
    /\ result = None
    /\ visited = <<>>
    /\ gateway_calls = <<>>
    /\ turn = 1
    /\ threading = "context_only"
    /\ initial_history = <<>>
    /\ synth_count = 0
    /\ retrieval = None /\ invocations = None /\ default_history = <<>>
    /\ extraction = None

SpecExtractor == InitExtractor /\ [][ContextAnalyzer]_vars

-----------------------------------------------------------------------------
(* The Context Extractor followed by the Dialogue Agent, on the wider set of
   messages: every branch of should_generate_content_check is taken. *)

DialogueInputs == ExtractorInputs \cup {"another one", "something funnier"}

InitDialogue ==
    /\ pc = "context_analyzer"
    /\ user_input \in DialogueInputs
    /\ conversation_history \in ExtractorHistories
    /\ arg_context \in {None, [content_history |-> <<EarlierItem>>]}
    /\ state = InitialState(user_input, conversation_history, arg_context)
    /\ result = None
    /\ visited = <<>>
    /\ gateway_calls = <<>>
    /\ turn = 1
    /\ threading = "context_only"
    /\ initial_history = <<>>
    /\ synth_count = 0
    /\ retrieval = None /\ invocations = None /\ default_history = <<>>
    /\ extraction = None

NextDialogue ==
    \/ ContextAnalyzer
    \/ ConversationAgent

SpecDialogue == InitDialogue /\ [][NextDialogue]_vars

-----------------------------------------------------------------------------
(* retriever.py: _HuggingFaceEmbedder and MultimodalRetriever.search *)

\* bounds of the retrieval model
NCandidates == 2
MaxTopK == 3

\* bool(v) of a value, negated: None, "", [] and {} are falsy
Falsy(v) ==
    \/ v = None
    \/ v.t = "str" /\ v.s = ""
    \/ v.t = "list" /\ v.items = <<>>
    \/ v.t = "dict" /\ DOMAIN v.fields = {}

QueryVector == JList(<<JNum(1), JNum(2)>>)

\* what the embedding endpoint answers: the request raises, or JSON data
EmbeddingReplies ==
    {[raised |-> TRUE, data |-> JNull],
     [raised |-> FALSE, data |-> JNull],
     [raised |-> FALSE, data |-> JList(<<>>)],
     [raised |-> FALSE, data |-> JList(<<QueryVector>>)],
     [raised |-> FALSE, data |-> QueryVector],
     [raised |-> FALSE, data |-> JDict([error |-> JStr("model loading")])]}

\* the tail of encode_text, encode_image and encode_video_frame:
\*   if data and isinstance(data[0], list): return data[0]
\*   return data
\* with every exception (the request's, or data[0] of a dict) turned into None
EmbeddingOf(reply) ==
    IF reply.raised THEN None
    ELSE LET data == reply.data IN
         IF Falsy(data) THEN data
         ELSE IF data.t = "dict" THEN None          \* data[0] raises KeyError
         ELSE IF data.items[1].t = "list" THEN data.items[1]
         ELSE data

encode_text(reply) == EmbeddingOf(reply)

\* what reading the video frame gives, then the endpoint's answer
VideoReplies ==
    {[frame |-> FALSE, http |-> [raised |-> TRUE, data |-> JNull]]}
    \cup {[frame |-> TRUE, http |-> r] : r \in EmbeddingReplies}

encode_video_frame(reply) ==
    IF ~reply.frame THEN None ELSE EmbeddingOf(reply.http)

\* the points of the collection, in stored order
Point(id, score, payload) == [id |-> id, score |-> score, payload |-> payload]

Collection ==
    <<Point("v1", 9, [id |-> "v1", text |-> "coffee routine"]),
      Point("v2", 7, [id |-> "v2"]),
      Point("v3", 5, [id |-> "v3", text |-> "dance trend"]),
      Point("v4", 3, [id |-> "v4", text |-> "gym"])>>

\* client.scroll(limit): the first limit points, or the call raises
ScrollReplies(limit) ==
    {[raised |-> TRUE, hits |-> <<>>],
     [raised |-> FALSE, hits |-> SubSeq(Collection, 1, Min(limit, Len(Collection)))]}

\* the subsequences of seq with at most n elements, order kept
RECURSIVE SubSequences(_, _)
SubSequences(seq, n) ==
    IF Len(seq) = 0 \/ n = 0 THEN {<<>>}
    ELSE SubSequences(Tail(seq), n)
         \cup {<<Head(seq)>> \o s : s \in SubSequences(Tail(seq), n - 1)}

\* client.search(limit): at most limit points by descending score, or the
\* call raises
SearchReplies(limit) ==
    {[raised |-> TRUE, results |-> <<>>]}
    \cup {[raised |-> FALSE, results |-> s] : s \in SubSequences(Collection, limit)}

\* cohere_client.rerank: the call raises, or returns results whose indexes
\* are any integers the service chose
RerankIndexes == (0 - 1)..NCandidates

RerankReplies ==
    {[raised |-> TRUE, idxs |-> <<>>]}
    \cup {[raised |-> FALSE, idxs |-> <<>>]}
    \cup {[raised |-> FALSE, idxs |-> <<i>>] : i \in RerankIndexes}
    \cup {[raised |-> FALSE, idxs |-> <<i, j>>] : i, j \in RerankIndexes}

\* results[i] of a Python list: negative indexes count from the end, an index
\* outside -len..len-1 raises IndexError
IndexResolves(results, i) == i >= 0 - Len(results) /\ i < Len(results)
Item(results, i) == IF i >= 0 THEN results[i + 1] ELSE results[Len(results) + i + 1]

Payloads(hits) == [k \in 1..Len(hits) |-> hits[k].payload]

\* the candidates returned without truncation
AllCandidates(results, top_k) == results

\* results[:top_k]
FirstK(results, top_k) == SubSeq(results, 1, Min(top_k, Len(results)))

\* lines 191-208 with the reranker's answer ignored
RerankedHitsRawOrder(results, reply, top_k) == FirstK(results, top_k)

\* lines 191-208 once rerank was called: final_hits from the returned indexes,
\* or results[:top_k] when the call or an index lookup raised
RerankedHits(results, reply, top_k) ==
    IF reply.raised \/ \E k \in 1..Len(reply.idxs) : ~IndexResolves(results, reply.idxs[k])
    THEN FirstK(results, top_k)
    ELSE [k \in 1..Len(reply.idxs) |-> Item(results, reply.idxs[k])]

Returns(value) == [raised |-> FALSE, value |-> value, error |-> ""]
Raises(error) == [raised |-> TRUE, value |-> <<>>, error |-> error]

\* the arguments of search: an absent argument is None
QueryTexts == {None, JStr(""), JStr("coffee")}
QueryVideos == {None, JStr("clip.mp4")}

\* query_text or ""
TextOrEmpty(query_text) == IF Falsy(query_text) THEN JStr("") ELSE query_text

\* docs = [res.payload.get("text", "") for res in results]
Docs(results) == [k \in 1..Len(results) |-> Get(results[k].payload, "text", "")]

ExternalCall(fn, args) == [fn |-> fn, args |-> args]

conversation_vars ==
    <<pc, user_input, conversation_history, arg_context, state, result, visited,
      gateway_calls, turn, threading, initial_history, synth_count>>

InitRetriever ==
    /\ pc = "idle" /\ user_input = "" /\ conversation_history = <<>>
    /\ arg_context = None /\ state = NoState /\ result = None
    /\ visited = <<>> /\ gateway_calls = <<>> /\ turn = 0
    /\ threading = "context_only" /\ initial_history = <<>> /\ synth_count = 0
    /\ invocations = None /\ default_history = <<>>
    /\ extraction = None
    /\ \E query_text \in QueryTexts, query_video \in QueryVideos,
          top_k \in 1..MaxTopK, cohere_client \in BOOLEAN :
          retrieval = [pc |-> "validate", query_text |-> query_text,
                       query_video |-> query_video, top_k |-> top_k,
                       cohere_client |-> cohere_client,
                       vector |-> None, vector_name |-> "", results |-> <<>>,
                       rerank_reply |-> None, calls |-> <<>>, outcome |-> None]

\* line 168 testing only for None
AfterEmbeddingNoneOnly(vector) == IF vector = None THEN "scroll" ELSE "search"

\* line 168: where search goes with the vector it has
AfterEmbedding(vector) == IF Falsy(vector) THEN "scroll" ELSE "search"

\* line 152 with "or" for "and"
InvalidQueryEither(query_text, query_video) == Falsy(query_text) \/ Falsy(query_video)

\* line 152: not query_text and not query_video
InvalidQuery(query_text, query_video) == Falsy(query_text) /\ Falsy(query_video)

\* lines 152-153
SearchValidate ==
    /\ retrieval # None /\ retrieval.pc = "validate"
    /\ retrieval' =
          IF InvalidQuery(retrieval.query_text, retrieval.query_video)
          THEN [retrieval EXCEPT !.pc = "done", !.outcome = Raises("ValueError")]
          ELSE [retrieval EXCEPT !.pc = IF ~Falsy(retrieval.query_video)
                                        THEN "embed_video" ELSE "embed_text"]
    /\ UNCHANGED <<conversation_vars, invocations, default_history, extraction>>

\* lines 156-160
EmbedVideo ==
    /\ retrieval # None /\ retrieval.pc = "embed_video"
    /\ \E reply \in VideoReplies :
          LET vector == encode_video_frame(reply)
              called == Append(retrieval.calls,
                               ExternalCall("encode_video_frame", retrieval.query_video))
          IN retrieval' =
                IF vector = None
                THEN [retrieval EXCEPT !.calls = called, !.pc = "embed_text"]
                ELSE [retrieval EXCEPT !.calls = called, !.vector = vector,
                                       !.vector_name = "visual",
                                       !.pc = AfterEmbedding(vector)]
    /\ UNCHANGED <<conversation_vars, invocations, default_history, extraction>>

\* lines 161-165
EmbedText ==
    /\ retrieval # None /\ retrieval.pc = "embed_text"
    /\ \E reply \in EmbeddingReplies :
          LET vector == encode_text(reply) IN
          retrieval' =
             [retrieval EXCEPT
                 !.calls = Append(@, ExternalCall("encode_text",
                                                  TextOrEmpty(retrieval.query_text))),
                 !.vector = vector, !.vector_name = "text",
                 !.pc = AfterEmbedding(vector)]
    /\ UNCHANGED <<conversation_vars, invocations, default_history, extraction>>

\* lines 168-179
ScrollFallback ==
    /\ retrieval # None /\ retrieval.pc = "scroll"
    /\ \E reply \in ScrollReplies(retrieval.top_k) :
          retrieval' =
             [retrieval EXCEPT
                 !.calls = Append(@, ExternalCall("scroll", [limit |-> retrieval.top_k,
                                                             raised |-> reply.raised])),
                 !.pc = "done",
                 !.outcome = IF reply.raised THEN Returns(<<>>)
                             ELSE Returns(Payloads(reply.hits))]
    /\ UNCHANGED <<conversation_vars, invocations, default_history, extraction>>

\* lines 181-189, and 205-208 when rerank is not used
SimilaritySearch ==
    /\ retrieval # None /\ retrieval.pc = "search"
    /\ \E reply \in SearchReplies(NCandidates) :
          LET called == Append(retrieval.calls,
                               ExternalCall("search",
                                            [vector_name |-> retrieval.vector_name,
                                             vector |-> retrieval.vector,
                                             limit |-> NCandidates,
                                             raised |-> reply.raised]))
          IN retrieval' =
                IF reply.raised
                THEN [retrieval EXCEPT !.calls = called, !.pc = "done",
                                       !.outcome = Raises("search")]
                ELSE IF reply.results = <<>>
                THEN [retrieval EXCEPT !.calls = called, !.pc = "done",
                                       !.outcome = Returns(<<>>)]
                ELSE IF retrieval.cohere_client /\ ~Falsy(retrieval.query_text)
                THEN [retrieval EXCEPT !.calls = called, !.results = reply.results,
                                       !.pc = "rerank"]
                ELSE [retrieval EXCEPT
                         !.calls = called, !.results = reply.results, !.pc = "done",
                         !.outcome = Returns(Payloads(FirstK(reply.results,
                                                             retrieval.top_k)))]
    /\ UNCHANGED <<conversation_vars, invocations, default_history, extraction>>

\* lines 191-204 and 208
Rerank ==
    /\ retrieval # None /\ retrieval.pc = "rerank"
    /\ \E reply \in RerankReplies :
          retrieval' =
             [retrieval EXCEPT
                 !.calls = Append(@, ExternalCall("rerank",
                                                  [query |-> retrieval.query_text,
                                                   documents |-> Docs(retrieval.results),
                                                   top_n |-> retrieval.top_k,
                                                   raised |-> reply.raised])),
                 !.rerank_reply = reply,
                 !.pc = "done",
                 !.outcome = Returns(Payloads(RerankedHits(retrieval.results, reply,
                                                           retrieval.top_k)))]
    /\ UNCHANGED <<conversation_vars, invocations, default_history, extraction>>

NextRetriever ==
    \/ SearchValidate
    \/ EmbedVideo
    \/ EmbedText
    \/ ScrollFallback
    \/ SimilaritySearch
    \/ Rerank

SpecRetriever == InitRetriever /\ [][NextRetriever]_vars

-----------------------------------------------------------------------------
(* Two process_conversation calls running side by side.  What they share is
   the module: the client, which holds no per-call state, and the list object
   of the default argument conversation_history = []. *)

Procs == {1, 2}

ConcurrentInputs == {"Create a viral coffee morning routine idea", "hello there"}

ConcurrentContexts ==
    {None,
     [selected_platforms |-> <<JStr("tiktok")>>],
     [selected_platforms |-> <<JNum(5)>>]}

\* the history a caller passes when it passes one
SuppliedHistory == <<User("I want coffee content")>>

ConcurrentDialogueReplies ==
    {[raised |-> TRUE, text |-> ""],
     [raised |-> FALSE, text |-> "Great, let's plan that."]}

ConcurrentSynthesisReplies ==
    {[raised |-> TRUE, text |-> ""],
     [raised |-> FALSE, text |-> FullJsonText]}

\* datetime.now() as the calls read it
ClockReading == 1

\* lines 680-689 appending the new message to the argument itself
HistoryArgumentAppended(history, input) ==
    Append(history, [type |-> "user", content |-> input])

\* lines 680-689: the conversation_history argument after the conversion,
\* which iterates it and appends to a list of its own
HistoryArgumentAfter(history, input) == history

InitConcurrent ==
    /\ pc = "idle" /\ user_input = "" /\ conversation_history = <<>>
    /\ arg_context = None /\ state = NoState /\ result = None
    /\ visited = <<>> /\ gateway_calls = <<>> /\ turn = 0
    /\ threading = "context_only" /\ initial_history = <<>> /\ synth_count = 0
    /\ retrieval = None
    /\ default_history = <<>>
    /\ extraction = None
    /\ invocations \in
          [Procs ->
              {[pc |-> "new", user_input |-> input, history_omitted |-> omitted,
                conversation_history |-> SuppliedHistory, arg_context |-> context,
                state |-> NoState, result |-> None, visited |-> <<>>,
                gateway_calls |-> <<>>,
                dialogue_reply |-> NoReply, synthesis_reply |-> NoReply] :
                 input \in ConcurrentInputs, omitted \in BOOLEAN,
                 context \in ConcurrentContexts}]

\* the except branch of process_conversation, for invocation p
Raised(p, node) ==
    [invocations[p] EXCEPT !.pc = "returned",
                           !.visited = Append(@, node),
                           !.result = ErrorResult(node, invocations[p].arg_context)]

\* lines 677-700: p enters process_conversation and builds its initial state
Enter(p) ==
    LET inv == invocations[p]
        history == IF inv.history_omitted THEN default_history
                   ELSE inv.conversation_history
        after == HistoryArgumentAfter(history, inv.user_input)
    IN /\ inv.pc = "new"
       /\ invocations' =
             [invocations EXCEPT
                 ![p] = [inv EXCEPT
                            !.pc = graph_edges["START"],
                            !.conversation_history =
                                IF inv.history_omitted THEN @ ELSE after,
                            !.state = InitialState(inv.user_input, history,
                                                   inv.arg_context)]]
       /\ default_history' = IF inv.history_omitted THEN after ELSE default_history
       /\ UNCHANGED <<conversation_vars, retrieval, extraction>>

AnalyzeContext(p) ==
    LET inv == invocations[p]
        out == context_analyzer(inv.state)
    IN /\ inv.pc = "context_analyzer"
       /\ invocations' =
             [invocations EXCEPT
                 ![p] = IF out.raised THEN Raised(p, "context_analyzer")
                        ELSE [inv EXCEPT !.pc = graph_edges["context_analyzer"],
                                         !.visited = Append(@, "context_analyzer"),
                                         !.state = out.state]]
       /\ UNCHANGED <<conversation_vars, retrieval, default_history, extraction>>

Converse(p) ==
    LET inv == invocations[p] IN
    /\ inv.pc = "conversation_agent"
    /\ \E reply \in IF ReachesDialogueCall(inv.state)
                    THEN ConcurrentDialogueReplies ELSE {NoReply} :
          LET out == conversation_agent(inv.state, reply) IN
          invocations' =
             [invocations EXCEPT
                 ![p] = IF out.raised
                        THEN [Raised(p, "conversation_agent") EXCEPT
                                 !.dialogue_reply = reply]
                        ELSE [inv EXCEPT !.pc = graph_edges["conversation_agent"],
                                         !.visited = Append(@, "conversation_agent"),
                                         !.state = out.state,
                                         !.gateway_calls = @ \o out.calls,
                                         !.dialogue_reply = reply]]
    /\ UNCHANGED <<conversation_vars, retrieval, default_history, extraction>>

Generate(p) ==
    LET inv == invocations[p] IN
    /\ inv.pc = "content_generator"
    /\ \E reply \in IF ReachesSynthesisCall(inv.state)
                    THEN ConcurrentSynthesisReplies ELSE {NoReply} :
          LET out == content_generator(inv.state, reply, ClockReading) IN
          invocations' =
             [invocations EXCEPT
                 ![p] = [inv EXCEPT !.pc = graph_edges["content_generator"],
                                    !.visited = Append(@, "content_generator"),
                                    !.state = out.state,
                                    !.gateway_calls = @ \o out.calls,
                                    !.synthesis_reply = reply]]
    /\ UNCHANGED <<conversation_vars, retrieval, default_history, extraction>>

\* lines 703-721
Finish(p) ==
    LET inv == invocations[p] IN
    /\ inv.pc = "END"
    /\ invocations' =
          [invocations EXCEPT
              ![p] = [inv EXCEPT !.pc = "returned",
                                 !.result = SuccessResult(inv.state)]]
    /\ UNCHANGED <<conversation_vars, retrieval, default_history, extraction>>

NextConcurrent ==
    \E p \in Procs :
        \/ Enter(p)
        \/ AnalyzeContext(p)
        \/ Converse(p)
        \/ Generate(p)
        \/ Finish(p)

SpecConcurrent == InitConcurrent /\ [][NextConcurrent]_vars

-----------------------------------------------------------------------------
(* extract_content_from_text alone, run line by line on texts made of up to
   MaxLines lines. *)

MaxLines == 3

HeuristicLines ==
    {"Idea: Coffee chaos",
     "Caption: my best idea yet",
     "STRUCTURE: fast cuts",
     "Hashtags: #coffee #chaos",
     "with extra foam",
     "hashtags: none"}

RECURSIVE TextsOf(_)
\* the texts of exactly n lines
TextsOf(n) ==
    IF n = 1 THEN HeuristicLines
    ELSE {text \o "\n" \o line : text \in TextsOf(n - 1), line \in HeuristicLines}

HeuristicTexts == UNION {TextsOf(n) : n \in 1..MaxLines}

InitHeuristic ==
    /\ pc = "idle" /\ user_input = "" /\ conversation_history = <<>>
    /\ arg_context = None /\ state = NoState /\ result = None
    /\ visited = <<>> /\ gateway_calls = <<>> /\ turn = 0
    /\ threading = "context_only" /\ initial_history = <<>> /\ synth_count = 0
    /\ retrieval = None /\ invocations = None /\ default_history = <<>>
    /\ \E text \in HeuristicTexts :
          extraction = [pc |-> "loop", text |-> text,
                        lines |-> SplitOn(text, "\n"),
                        done |-> <<>>,
                        acc |-> [content |-> ExtractDefaults, current_section |-> ""],
                        returned |-> None]

\* one iteration of the loop of lines 650-673
ExtractNextLine ==
    /\ extraction # None /\ extraction.pc = "loop"
    /\ extraction.lines # <<>>
    /\ extraction' = [extraction EXCEPT
                         !.acc = ExtractLine(@, Head(extraction.lines)),
                         !.done = Append(@, Head(extraction.lines)),
                         !.lines = Tail(@)]
    /\ UNCHANGED <<conversation_vars, retrieval, invocations, default_history>>

\* line 675
ExtractReturn ==
    /\ extraction # None /\ extraction.pc = "loop"
    /\ extraction.lines = <<>>
    /\ extraction' = [extraction EXCEPT
                         !.pc = "returned",
                         !.returned = extract_content_from_text(extraction.text)]
    /\ UNCHANGED <<conversation_vars, retrieval, invocations, default_history>>

NextHeuristic ==
    \/ ExtractNextLine
    \/ ExtractReturn

SpecHeuristic == InitHeuristic /\ [][NextHeuristic]_vars

-----------------------------------------------------------------------------
(* Vocabulary of the properties. *)

\* a call has returned
Returned == pc = "idle" /\ turn > 0

\* the context and the content history the caller passed in, an absent
\* context read as the empty one
GivenContext == IF arg_context = None THEN EmptyDict ELSE arg_context
GivenHistory == Get(GivenContext, "content_history", <<>>)

IsPrefix(a, b) == Len(a) <= Len(b) /\ SubSeq(b, 1, Len(a)) = a

AllNodes == <<"context_analyzer", "conversation_agent", "content_generator">>

\* the Dialogue Agent's gateway call was made and raised
DialogueFailed ==
    \E i \in 1..Len(gateway_calls) :
        gateway_calls[i].node = "conversation_agent" /\ gateway_calls[i].raised

AnalyzerKeys ==
    {"current_intent", "message_count", "last_user_input", "is_continuation",
     "conversation_topic", "last_content_reference"}

AgentKeys == {"needs_content_generation", "last_response", "content_prompt"}

SynthesizerKeys ==
    {"needs_content_generation", "last_generated_content", "content_generation_count"}

StageKeys == AnalyzerKeys \cup AgentKeys \cup SynthesizerKeys

-----------------------------------------------------------------------------
(* C1 *)

\* C1: a call whose graph run was aborted by an exception does not raise: it
\* returns success = false with an error string, the fixed apology, no
\* structured content, and the caller's own context and content history;
\* nothing a node wrote before the failure is in the result.  A call returns
\* success = false exactly when its run was aborted.
C1_FailureReturnsInput ==
    Returned =>
        /\ (result.success = FALSE) <=> (visited # AllNodes)
        /\ result.success = FALSE =>
              /\ "error" \in DOMAIN result
              /\ result.response
                    = "I'm having trouble processing your request. Please try again."
              /\ result.structured_content = None
              /\ result.conversation_context = GivenContext
              /\ result.content_history = GivenHistory

\* a run aborted in conversation_agent, after context_analyzer wrote its keys
C1_Witness ==
    /\ Returned
    /\ result.success = FALSE
    /\ visited = <<"context_analyzer", "conversation_agent">>
    /\ DOMAIN GivenContext # {}

-----------------------------------------------------------------------------
(* C2 *)

\* C2: when every call gets the content history the previous call returned,
\* the returned history has the length of the initial history plus the number
\* of turns whose synthesis succeeded, and both the initial history and the
\* history passed to the call are prefixes of it.
C2_HistoryAppendOnly ==
    (Returned /\ threading = "with_history") =>
        /\ Len(result.content_history) = Len(initial_history) + synth_count
        /\ IsPrefix(initial_history, result.content_history)
        /\ IsPrefix(GivenHistory, result.content_history)

\* two successful syntheses on top of a non-empty initial history
C2_Witness ==
    /\ Returned
    /\ threading = "with_history"
    /\ synth_count = 2
    /\ Len(initial_history) = 1
    /\ Len(result.content_history) = 3

-----------------------------------------------------------------------------
(* C3 *)

\* C3: with the next call given the conversation_context the previous call
\* returned, the content history the previous call returned is a prefix of
\* the content history the nodes of the next call work on and return.
C3_HistoryCarriedByContext ==
    (threading = "context_only" /\ turn >= 2 /\ pc # "idle") =>
        IsPrefix(result.content_history, state.content_history)

-----------------------------------------------------------------------------
(* C4 *)

\* the JSON object the gateway returned to call i, or None
ReturnedObject(i) ==
    IF /\ i <= Len(gateway_calls)
       /\ ~gateway_calls[i].raised
       /\ gateway_calls[i].text \in DOMAIN JsonDocuments
       /\ IsDict(JsonDocuments[gateway_calls[i].text])
    THEN JsonDocuments[gateway_calls[i].text]
    ELSE None

\* C4: a first turn (no conversation history, no content history) with a
\* content-creation request, in which the gateway returned a JSON object to
\* both calls, returns success, that object as structured_content, and a
\* content history of the single item content_1 holding that object.
C4_FirstTurnCreatesContent ==
    (/\ Returned /\ turn = 1
     /\ conversation_history = <<>> /\ GivenHistory = <<>>
     /\ analyze_user_intent(user_input) = "content_generation"
     /\ Len(gateway_calls) = 2
     /\ ReturnedObject(1) # None /\ ReturnedObject(2) # None)
    => /\ result.success
       /\ result.structured_content = ReturnedObject(2)
       /\ Len(result.content_history) = 1
       /\ result.content_history[1].id = "content_1"
       /\ result.content_history[1].data = ReturnedObject(2)

-----------------------------------------------------------------------------
(* C5 *)

\* C5 as stated: after a turn whose Dialogue Agent call failed the returned
\* context equals the context passed in.
C5_ContextEqualsInput ==
    (Returned /\ DialogueFailed) => result.conversation_context = GivenContext

\* C5 amended: after a turn whose Dialogue Agent call failed, the returned
\* context has the keys of the input context plus the six keys the Context
\* Extractor writes (plus the three keys of the Content Synthesizer when a
\* flag already set in the input made it synthesize), and every other key has
\* its input value: the Dialogue Agent wrote nothing.
C5_OnlyExtractorKeysChange ==
    (Returned /\ DialogueFailed) =>
        LET out == result.conversation_context
            changed == IF Synthesized(state)
                       THEN AnalyzerKeys \cup SynthesizerKeys
                       ELSE AnalyzerKeys
        IN /\ DOMAIN out = DOMAIN GivenContext \cup changed
           /\ \A k \in DOMAIN GivenContext \ changed : out[k] = GivenContext[k]

\* a failed Dialogue Agent call, no synthesis, on a context that has keys
C5_Witness ==
    /\ Returned /\ DialogueFailed /\ ~Synthesized(state)
    /\ "selected_platforms" \in DOMAIN GivenContext
    /\ "needs_content_generation" \notin DOMAIN result.conversation_context

-----------------------------------------------------------------------------
(* C6 *)

\* C6: in a turn whose Dialogue Agent call failed the Content Synthesizer
\* calls no gateway, the only message added is the fallback reply, and the
\* returned content history is the one passed in.
C6_NoSynthesisAfterDialogueFailure ==
    (Returned /\ DialogueFailed) =>
        /\ \A i \in 1..Len(gateway_calls) :
              gateway_calls[i].node # "content_generator"
        /\ Len(state.messages) = Len(conversation_history) + 2
        /\ result.content_history = GivenHistory

-----------------------------------------------------------------------------
(* C7 *)

\* C7: the nodes run in the order context_analyzer, conversation_agent,
\* content_generator, none twice, each only after the one before it; a call
\* that returns success has run all three.
C7_LinearOrder ==
    /\ IsPrefix(visited, AllNodes)
    /\ pc = "context_analyzer" => visited = <<>>
    /\ pc = "conversation_agent" => visited = SubSeq(AllNodes, 1, 1)
    /\ pc = "content_generator" => visited = SubSeq(AllNodes, 1, 2)
    /\ pc = "END" => visited = AllNodes
    /\ (Returned /\ result.success) => visited = AllNodes

\* a turn of general conversation that needed no content ran all three nodes
C7_Witness ==
    /\ Returned /\ result.success
    /\ result.conversation_context.current_intent = "general_conversation"
    /\ result.conversation_context.needs_content_generation = FALSE
    /\ visited = AllNodes

-----------------------------------------------------------------------------
(* C8 *)

\* the intent analyze_user_intent of the source returns for each message
ExpectedIntent ==
    [m \in ExtractorInputs |->
        CASE m = "Make it MORE chaotic video" -> "content_modification"
          [] m = "Create a viral coffee morning routine idea" -> "content_generation"
          [] m = "What is trending" -> "content_generation"
          [] m = "How do I start" -> "question"
          [] m = "find popular songs" -> "search"
          [] m = "hello there" -> "general_conversation"
          [] m = "pineapple" -> "general_conversation"
          [] m = "coffee please" -> "general_conversation"
          [] m = "WHY is it viral" -> "question"
          [] m = "a button" -> "content_modification"
          [] m = "Can you give me another idea?" -> "content_generation"
          [] m = "make it more chaotic" -> "content_modification"]

\* C8: current_intent is decided by the first keyword list, in the order
\* modification, creation, question, search, one of whose keywords is a
\* substring of the lower-cased message, and is general_conversation when
\* none is.
C8_IntentPrecedence ==
    pc = "conversation_agent" =>
        LET intent == state.user_context.current_intent
            low == lower(user_input)
            modification == AnyIn(intent_modification_keywords, low)
            creation == AnyIn(intent_content_keywords, low)
            question == AnyIn(intent_question_keywords, low)
            search == AnyIn(intent_search_keywords, low)
        IN /\ modification => intent = "content_modification"
           /\ (~modification /\ creation) => intent = "content_generation"
           /\ (~modification /\ ~creation /\ question) => intent = "question"
           /\ (~modification /\ ~creation /\ ~question /\ search) => intent = "search"
           /\ (~modification /\ ~creation /\ ~question /\ ~search)
                 => intent = "general_conversation"
           /\ user_input \in ExtractorInputs => intent = ExpectedIntent[user_input]

\* a message with a modification and a creation keyword, in upper case
C8_Witness ==
    /\ pc = "conversation_agent"
    /\ user_input = "Make it MORE chaotic video"
    /\ state.user_context.current_intent = "content_modification"

-----------------------------------------------------------------------------
(* C9 *)

\* the words of a text, lower-cased
Tokens(text) == Range(split(lower(text)))

\* the message shares a token longer than 4 with one of the last 6 messages
\* that precede it
SharesTokenWithEarlier(input, messages) ==
    LET earlier == LastN(SubSeq(messages, 1, Len(messages) - 1), 6) IN
    \E i \in 1..Len(earlier) :
        \E w \in Tokens(input) : Len(w) > 4 /\ w \in Tokens(earlier[i].content)

\* C9: is_continuation is true exactly when the message contains a
\* continuation keyword or shares a token longer than 4 with one of the last
\* 6 messages before it, at every conversation length.
C9_ContinuationRule ==
    pc = "conversation_agent" =>
        state.user_context.is_continuation
            = (\/ AnyIn(continuation_keywords, lower(user_input))
               \/ SharesTokenWithEarlier(user_input, state.messages))

-----------------------------------------------------------------------------
(* C10 *)

\* C10: a call that returns success returns every key of the input context
\* that no node writes, with its input value.
C10_ContextMerged ==
    (Returned /\ result.success) =>
        \A k \in DOMAIN GivenContext \ StageKeys :
            /\ k \in DOMAIN result.conversation_context
            /\ result.conversation_context[k] = GivenContext[k]

\* a turn that synthesized content on a context carrying keys of the caller
C10_Witness ==
    /\ Returned /\ result.success /\ Synthesized(state)
    /\ {"session_id", "trending_content"} \subseteq DOMAIN GivenContext
    /\ result.conversation_context.session_id = "abc"

-----------------------------------------------------------------------------
(* Vocabulary of the retrieval properties. *)

SearchDone == retrieval.pc = "done"

\* the external calls of the search, by function
CallsOf(fn) == {k \in 1..Len(retrieval.calls) : retrieval.calls[k].fn = fn}
Called(fn) == CallsOf(fn) # {}

\* the embedding client was asked and gave no usable vector
NoUsableVector ==
    /\ Called("encode_text") \/ Called("encode_video_frame")
    /\ retrieval.pc \notin {"embed_video", "embed_text"}
    /\ Falsy(retrieval.vector)

-----------------------------------------------------------------------------
(* C11 *)

\* C11: a search whose embedding gave None or an empty vector never calls the
\* similarity search or the reranker and does not raise; it asks the scroll
\* for top_k items and, when the scroll answers, returns the payloads of the
\* first top_k points of the collection in stored order.
C11_ScrollFallback ==
    NoUsableVector =>
        /\ ~Called("search") /\ ~Called("rerank")
        /\ SearchDone =>
              /\ ~retrieval.outcome.raised
              /\ Cardinality(CallsOf("scroll")) = 1
              /\ \A k \in CallsOf("scroll") :
                    /\ retrieval.calls[k].args.limit = retrieval.top_k
                    /\ ~retrieval.calls[k].args.raised =>
                          retrieval.outcome.value
                             = Payloads(SubSeq(Collection, 1, retrieval.top_k))

\* an empty vector, and the first two of the four stored points returned
C11_Witness ==
    /\ SearchDone
    /\ retrieval.vector = JList(<<>>)
    /\ retrieval.top_k = 2
    /\ retrieval.outcome = Returns(<<Collection[1].payload, Collection[2].payload>>)

-----------------------------------------------------------------------------
(* C12 *)

\* the reranker was called and failed: the call raised, or one of the
\* indexes it returned is not a position 0..n-1 of the candidate list
RerankFailed ==
    /\ retrieval.rerank_reply # None
    /\ \/ retrieval.rerank_reply.raised
       \/ \E k \in 1..Len(retrieval.rerank_reply.idxs) :
             retrieval.rerank_reply.idxs[k] \notin 0..(Len(retrieval.results) - 1)

\* C12: a search whose reranker failed does not raise and returns the
\* payloads of the first top_k candidates, in the order the index gave them.
C12_RerankDegrades ==
    (SearchDone /\ RerankFailed) =>
        /\ ~retrieval.outcome.raised
        /\ retrieval.outcome.value
              = Payloads(FirstK(retrieval.results, retrieval.top_k))

-----------------------------------------------------------------------------
(* C13 *)

\* the reranker was called, returned, and every index it returned was
\* resolved in the candidate list (as results[i] resolves it)
RerankSucceeded ==
    /\ retrieval.rerank_reply # None
    /\ ~retrieval.rerank_reply.raised
    /\ \A k \in 1..Len(retrieval.rerank_reply.idxs) :
          IndexResolves(retrieval.results, retrieval.rerank_reply.idxs[k])

-----------------------------------------------------------------------------
(* C14 *)

\* C14: a search with neither a query text nor a query video (None or the
\* empty string) raises ValueError in its first step, with no call to the
\* embedder, the index or the reranker; a search with one of them never
\* ends with that error.
C14_InvalidQueryFirst ==
    IF Falsy(retrieval.query_text) /\ Falsy(retrieval.query_video)
    THEN /\ retrieval.calls = <<>>
         /\ retrieval.pc \in {"validate", "done"}
         /\ SearchDone => retrieval.outcome = Raises("ValueError")
    ELSE SearchDone => ~(retrieval.outcome.raised
                         /\ retrieval.outcome.error = "ValueError")

\* a search without arguments has raised; nothing was called
C14_Witness ==
    /\ SearchDone
    /\ retrieval.query_text = None /\ retrieval.query_video = None
    /\ retrieval.outcome = Raises("ValueError")
    /\ retrieval.calls = <<>>

-----------------------------------------------------------------------------
(* C15 *)

\* a call to the vector index (search or scroll) raised
IndexCallFailed ==
    \E k \in CallsOf("search") \cup CallsOf("scroll") : retrieval.calls[k].args.raised

\* C15: a search one of whose vector-index calls failed ends with an error,
\* never with a result list; and a search that passed validation ends with
\* an error only then (embedding and rerank failures do not escape).
C15_IndexFailureReported ==
    SearchDone =>
        /\ IndexCallFailed => retrieval.outcome.raised
        /\ (retrieval.outcome.raised /\ retrieval.outcome.error # "ValueError")
              => IndexCallFailed

-----------------------------------------------------------------------------
(* C16 *)

\* what process_conversation returns when it runs alone: the nodes applied
\* one after the other to the state built from the arguments
ResultAlone(input, history, context, dialogue_reply, synthesis_reply) ==
    LET analyzed == context_analyzer(InitialState(input, history, context)) IN
    IF analyzed.raised THEN ErrorResult("context_analyzer", context)
    ELSE LET agent == conversation_agent(analyzed.state, dialogue_reply) IN
         IF agent.raised THEN ErrorResult("conversation_agent", context)
         ELSE SuccessResult(content_generator(agent.state, synthesis_reply,
                                              ClockReading).state)

\* C16: under every interleaving of two calls, a call that has returned
\* returned what it returns alone for its arguments and its gateway replies;
\* the history a caller supplied and the shared default history are as they
\* were before the calls.
C16_CallsDoNotInterfere ==
    invocations # None =>
        /\ default_history = <<>>
        /\ \A p \in Procs :
              /\ invocations[p].conversation_history = SuppliedHistory
              /\ invocations[p].pc = "returned" =>
                    invocations[p].result
                       = ResultAlone(invocations[p].user_input,
                                     IF invocations[p].history_omitted THEN <<>>
                                     ELSE SuppliedHistory,
                                     invocations[p].arg_context,
                                     invocations[p].dialogue_reply,
                                     invocations[p].synthesis_reply)

\* both calls returned, the second having started while the first was
\* between its nodes, one with content synthesized and one without
C16_Witness ==
    /\ invocations # None
    /\ \A p \in Procs : invocations[p].pc = "returned"
    /\ invocations[1].history_omitted /\ invocations[2].history_omitted
    /\ invocations[1].result.structured_content # None
    /\ invocations[2].result.structured_content = None
    /\ invocations[2].result.success

-----------------------------------------------------------------------------
(* C17: the needs_content_generation flag the Dialogue Agent writes is a
   function of the context alone: true if current_intent is
   content_modification or content_generation, else true if the last user
   input contains a content-request keyword, else true if is_continuation
   holds and conversation_topic is not "general", else true if the content
   history is non-empty and the input contains a modification keyword, else
   false.  Two runs from the same context with different reply texts write
   the same flag. *)

FlagBranch(user_context) ==
    LET input == lower(user_context["last_user_input"]) IN
    IF user_context["current_intent"] \in {"content_modification", "content_generation"}
    THEN 1
    ELSE IF \E i \in 1..Len(content_request_keywords) :
               Contains(content_request_keywords[i], input)
    THEN 2
    ELSE IF user_context["is_continuation"]
            /\ user_context["conversation_topic"] # "general"
    THEN 3
    ELSE IF Get(user_context, "content_history", <<>>) # <<>>
            /\ \E i \in 1..Len(more_content_keywords) :
                  Contains(more_content_keywords[i], input)
    THEN 4
    ELSE 0

ReturnedReplies == {reply \in DialogueReplies : ~reply.raised}

WrittenFlag(st, reply) ==
    conversation_agent(st, reply).state.user_context["needs_content_generation"]

C17_FlagFromContextAlone ==
    /\ (pc = "conversation_agent" /\ ReachesDialogueCall(state))
       => \A r1 \in ReturnedReplies :
             /\ WrittenFlag(state, r1) = (FlagBranch(state.user_context) # 0)
             /\ \A r2 \in ReturnedReplies :
                   WrittenFlag(state, r1) = WrittenFlag(state, r2)
    /\ (pc = "content_generator" /\ gateway_calls # <<>>
        /\ ~gateway_calls[Len(gateway_calls)].raised)
       => state.user_context["needs_content_generation"]
             = (FlagBranch(state.user_context) # 0)

C17_Witness ==
    /\ pc = "content_generator"
    /\ gateway_calls # <<>>
    /\ ~gateway_calls[Len(gateway_calls)].raised
    /\ gateway_calls[Len(gateway_calls)].text = PartialJsonText
    /\ FlagBranch(state.user_context) = 4
    /\ state.user_context["needs_content_generation"]

-----------------------------------------------------------------------------
(* C18: when the gateway returns an empty or None text, the Dialogue Agent
   does what it does when the gateway raises: it appends exactly one
   assistant message carrying a fixed fallback reply and returns the context
   exactly as it received it, with none of needs_content_generation,
   last_response and content_prompt written. *)

EmptyTextReturned ==
    /\ pc = "conversation_agent"
    /\ pc' = "content_generator"
    /\ Len(gateway_calls') = Len(gateway_calls) + 1
    /\ ~gateway_calls'[Len(gateway_calls')].raised
    /\ gateway_calls'[Len(gateway_calls')].text = ""

C18_EmptyTextLeavesContext ==
    [][EmptyTextReturned
       => /\ \E text \in {DialogueDefaultText, DialogueFallback} :
                state'.messages = Append(state.messages, AIMessage(text))
          /\ state'.user_context = state.user_context
          /\ {"needs_content_generation", "last_response", "content_prompt"}
                \cap DOMAIN state'.user_context = {}]_vars

-----------------------------------------------------------------------------
(* C19: a synthesis step whose flag is true, whose content_prompt is not
   empty and whose gateway call returns appends exactly one item at the end
   of the content history, with id "content_" + (length before + 1), sets
   needs_content_generation to false, stores the parsed data under
   last_generated_content, increases content_generation_count by exactly 1
   (from 0 when absent), appends exactly one assistant message carrying the
   structured data, and changes no other context key. *)

SynthesisKeys ==
    {"needs_content_generation", "last_generated_content",
     "content_generation_count"}

SynthesisCallReturned ==
    /\ pc = "content_generator"
    /\ Get(state.user_context, "needs_content_generation", FALSE)
    /\ Get(state.user_context, "content_prompt", "") # ""
    /\ Len(gateway_calls') = Len(gateway_calls) + 1
    /\ gateway_calls'[Len(gateway_calls')].node = "content_generator"
    /\ ~gateway_calls'[Len(gateway_calls')].raised

SynthesisStepEffects ==
    LET before == state.content_history
        after == state'.content_history
        old == state.user_context
        new == state'.user_context
        item == after[Len(after)]
        message == state'.messages[Len(state'.messages)]
    IN /\ Len(after) = Len(before) + 1
       /\ SubSeq(after, 1, Len(before)) = before
       /\ item.id = "content_" \o ToString(Len(before) + 1)
       /\ DOMAIN new = DOMAIN old \cup SynthesisKeys
       /\ new["needs_content_generation"] = FALSE
       /\ new["last_generated_content"] = item.data
       /\ new["content_generation_count"]
             = Get(old, "content_generation_count", 0) + 1
       /\ \A key \in DOMAIN old \ SynthesisKeys : new[key] = old[key]
       /\ Len(state'.messages) = Len(state.messages) + 1
       /\ SubSeq(state'.messages, 1, Len(state.messages)) = state.messages
       /\ message.type = "ai"
       /\ "structured_content" \in DOMAIN message.additional_kwargs
       /\ message.additional_kwargs["structured_content"] = item.data

C19_SynthesisStep ==
    [][SynthesisCallReturned => SynthesisStepEffects]_vars

-----------------------------------------------------------------------------
(* C20: when the gateway call of the Content Synthesizer fails, the step
   appends exactly one fixed fallback assistant message and leaves the content
   history, needs_content_generation (still true), content_prompt,
   content_generation_count and every other context key as they were; the
   turn still returns success = true with structured_content = null. *)

LastCallIsFailedSynthesis(calls) ==
    /\ calls # <<>>
    /\ calls[Len(calls)].node = "content_generator"
    /\ calls[Len(calls)].raised

SynthesisCallFailed ==
    /\ pc = "content_generator"
    /\ Len(gateway_calls') = Len(gateway_calls) + 1
    /\ LastCallIsFailedSynthesis(gateway_calls')

ReturnsAfterFailedSynthesis ==
    /\ pc = "END"
    /\ pc' = "idle"
    /\ LastCallIsFailedSynthesis(gateway_calls)

C20_SynthesisFailure ==
    [][/\ SynthesisCallFailed
          => /\ state'.messages
                   = Append(state.messages,
                            AIMessage("I'm having trouble generating content. Please try again."))
             /\ state'.content_history = state.content_history
             /\ state'.user_context = state.user_context
             /\ state'.user_context["needs_content_generation"] = TRUE
       /\ ReturnsAfterFailedSynthesis
          => /\ result'.success = TRUE
             /\ result'.structured_content = None
             /\ result'.conversation_context = state.user_context
             /\ result'.content_history = state.content_history]_vars

C20_Witness ==
    /\ pc = "idle"
    /\ turn = 2
    /\ LastCallIsFailedSynthesis(gateway_calls)
    /\ result.success = TRUE
    /\ result.structured_content = None
    /\ result.response = SynthesisFallback
    /\ result.content_history # <<>>
    /\ result.conversation_context["needs_content_generation"] = TRUE
    /\ "content_generation_count" \in DOMAIN result.conversation_context

-----------------------------------------------------------------------------
(* C21: synthesis never fails on the shape of the model output.  Whenever the
   gateway call of the Content Synthesizer returns, whatever its text (a JSON
   object, JSON that is not an object, text that is not JSON, empty text), the
   step completes on its success path: it appends one content item, its
   message is not the fallback message, and a field missing from the output
   is rendered with its fixed default. *)

RenderedDefaults ==
    [idea |-> "**Idea:** No idea generated",
     videoStructure |-> "**Video Structure:** No structure provided",
     caption |-> "**Caption:** No caption generated"]

SuccessPathTaken ==
    LET message == state'.messages[Len(state'.messages)]
        item == state'.content_history[Len(state'.content_history)]
    IN /\ Len(state'.content_history) = Len(state.content_history) + 1
       /\ Len(state'.messages) = Len(state.messages) + 1
       /\ message.content # SynthesisFallback
       /\ "structured_content" \in DOMAIN message.additional_kwargs
       /\ IsDict(item.data)
          => \A field \in DOMAIN RenderedDefaults :
                field \notin DOMAIN item.data.fields
                => Contains(RenderedDefaults[field], message.content)

C21_SynthesisNeverFailsOnShape ==
    [][SynthesisCallReturned => SuccessPathTaken]_vars

-----------------------------------------------------------------------------
(* C22: in the conversation_context every turn returns, over every sequence
   of turns threaded through the caller, content_prompt is populated only
   when needs_content_generation is true: a context whose flag is false or
   absent carries no non-empty content_prompt. *)

C22_PromptOnlyWithFlag ==
    Returned
    => LET context == result.conversation_context IN
       ~Get(context, "needs_content_generation", FALSE)
       => Get(context, "content_prompt", "") = ""

-----------------------------------------------------------------------------
(* C23: when a media query is given and the media embedding fails, also by
   answering an empty vector instead of None, search falls back to the text
   embedding of query_text (the empty string when query_text is absent) and
   searches the text vector space; the visual vector space is queried only
   with a usable media vector. *)

PastEmbedding == retrieval.pc \in {"scroll", "search", "rerank", "done"}

MediaVectorInUse == retrieval.vector_name = "visual" /\ ~Falsy(retrieval.vector)

C23_MediaFailureFallsBackToText ==
    /\ (Called("encode_video_frame") /\ PastEmbedding /\ ~MediaVectorInUse)
       => /\ retrieval.vector_name = "text"
          /\ \E k \in CallsOf("encode_text") :
                retrieval.calls[k].args = TextOrEmpty(retrieval.query_text)
    /\ \A k \in CallsOf("search") :
          retrieval.calls[k].args.vector_name = "visual"
          => ~Falsy(retrieval.calls[k].args.vector)

-----------------------------------------------------------------------------
(* C24: the reranker is invoked only when one is configured and the query was
   textual: never without a configured reranker, never for a search whose
   query vector came from the media embedding (the visual vector space),
   never on the scroll path, never when the similarity search returned no
   candidates; and it receives the original query text, the text fields of
   the candidates in candidate order, and top_n = top_k. *)

RerankArguments ==
    \A k \in CallsOf("rerank") :
       /\ retrieval.calls[k].args.query = retrieval.query_text
       /\ retrieval.calls[k].args.documents
             = [i \in 1..Len(retrieval.results) |->
                   IF "text" \in DOMAIN retrieval.results[i].payload
                   THEN retrieval.results[i].payload["text"] ELSE ""]
       /\ retrieval.calls[k].args.top_n = retrieval.top_k

C24_RerankOnlyForTextQueries ==
    Called("rerank")
    => /\ retrieval.cohere_client
       /\ retrieval.vector_name = "text"
       /\ ~Called("encode_video_frame") \/ Called("encode_text")
       /\ ~Called("scroll")
       /\ Called("search")
       /\ retrieval.results # <<>>
       /\ RerankArguments

-----------------------------------------------------------------------------
(* C25: the conversation_topic written by the Context Extractor is the first
   topic, in table order, one of whose keywords occurs in the concatenated
   lower-cased text of the last 6 messages (the new user message included),
   and "general" only when no topic keyword occurs there, for every length of
   the message sequence, a single message included. *)

TopicsOccurring(messages) ==
    LET recent == SubSeq(messages, Max(1, Len(messages) - 5), Len(messages))
        text == RecentContent(recent)
    IN {i \in 1..Len(topic_table) :
           \E k \in 1..Len(topic_table[i].keywords) :
              Contains(topic_table[i].keywords[k], text)}

ExtractorReturned == pc = "conversation_agent" /\ visited = <<"context_analyzer">>

C25_TopicFromLastSix ==
    ExtractorReturned
    => LET occurring == TopicsOccurring(state.messages)
           written == state.user_context["conversation_topic"]
       IN IF occurring = {} THEN written = "general"
          ELSE \E i \in occurring :
                  /\ \A j \in occurring : i <= j
                  /\ written = topic_table[i].topic

-----------------------------------------------------------------------------
(* C26: in the heuristic extractor a line is a section header by its prefix.
   A line beginning with idea:, structure:, caption: or hashtags: (any case)
   opens that section and sets that field, and only that field, from the text
   after the colon, whatever words the rest of the line contains; a following
   line that is not a header is accumulated into the open section. *)

HeaderPrefixes ==
    [idea |-> "idea:", videoStructure |-> "structure:", caption |-> "caption:",
     hashtags |-> "hashtags:"]

\* the fields whose prefix the line begins with
HeaderOf(line) ==
    {field \in DOMAIN HeaderPrefixes :
        LET prefix == HeaderPrefixes[field] IN
        /\ Len(line) >= Len(prefix)
        /\ lower(SubSeq(line, 1, Len(prefix))) = prefix}

LineTaken ==
    /\ extraction # None /\ extraction.pc = "loop" /\ extraction.lines # <<>>
    /\ extraction'.done = Append(extraction.done, Head(extraction.lines))

HeaderSetsItsField ==
    LET line == strip(Head(extraction.lines))
        before == extraction.acc
        after == extraction'.acc
    IN \A field \in HeaderOf(line) :
          /\ after.current_section = field
          /\ \A other \in DOMAIN before.content \ {field} :
                after.content[other] = before.content[other]
          /\ field # "hashtags"
             => after.content[field]
                   = strip(SubSeq(line, Len(HeaderPrefixes[field]) + 1, Len(line)))

ContinuationAccumulates ==
    LET line == strip(Head(extraction.lines))
        before == extraction.acc
        after == extraction'.acc
    IN (HeaderOf(line) = {} /\ line # ""
        /\ before.current_section \in {"idea", "videoStructure", "caption"})
       => /\ after.current_section = before.current_section
          /\ after.content
                = [before.content EXCEPT
                      ![before.current_section] = @ \o " " \o line]

C26_HeaderByPrefix ==
    [][LineTaken => HeaderSetsItsField /\ ContinuationAccumulates]_vars

-----------------------------------------------------------------------------
(* C30: after heuristic extraction of any text, hashtags is a list whose
   every element is a whole token: one of the default hashtags, or a
   whitespace-delimited token of a hashtags line that began with '#', with the
   '#' removed.  Lines after a hashtags header never add single characters or
   other elements to the list. *)

DefaultHashtags == {"viral", "trending", "content"}

\* the '#' tokens of the hashtags lines of a text
HashtagTokens(text) ==
    LET lines == SplitOn(text, "\n") IN
    UNION {{StripChars(word, {"#"}) :
               word \in {w \in Range(split(lines[k])) : Len(w) > 0 /\ Char(w, 1) = "#"}} :
           k \in {j \in 1..Len(lines) : "hashtags" \in HeaderOf(strip(lines[j]))}}

C30_HashtagsAreTokens ==
    (extraction # None /\ extraction.pc = "returned")
    => LET hashtags == extraction.returned.fields["hashtags"] IN
       /\ hashtags.t = "list"
       /\ \A i \in 1..Len(hashtags.items) :
             /\ hashtags.items[i].t = "str"
             /\ hashtags.items[i].s
                   \in DefaultHashtags \cup HashtagTokens(extraction.text)

-----------------------------------------------------------------------------
(* C27: over every sequence of turns in which each turn receives the content
   history the previous turn returned, starting from an empty history, the
   item at position i of the returned content history has id "content_i", so
   the ids are pairwise distinct; a failed synthesis or a turn without
   synthesis neither consumes nor repeats an id. *)

HistoryThreaded == threading = "with_history" /\ initial_history = <<>>

C27_IdsFollowPositions ==
    (Returned /\ HistoryThreaded)
    => LET history == result.content_history IN
       /\ Len(history) = synth_count
       /\ \A i \in 1..Len(history) : history[i].id = "content_" \o ToString(i)
       /\ \A i, j \in 1..Len(history) : history[i].id = history[j].id => i = j

C27_Witness ==
    /\ Returned /\ HistoryThreaded
    /\ turn = 2
    /\ Len(result.content_history) = 2
    /\ result.content_history[2].id = "content_2"
    /\ result.content_history[1].id = "content_1"

-----------------------------------------------------------------------------
(* C28: for every turn that returns success = true, structured_content is
   non-null exactly when this turn appended a content item to the content
   history, and then it is the data of the last item of the returned history;
   response is the text of the last assistant message appended in the turn:
   the synthesis message or its fallback when synthesis was attempted,
   otherwise the reply or the fallback of the Dialogue Agent. *)

ItemAppended == Len(result.content_history) = Len(state.content_history)
                /\ Len(state.content_history) = Len(GivenHistory) + 1

MessagesGiven == Len(conversation_history) + 1

SynthesisAttempted ==
    /\ gateway_calls # <<>>
    /\ gateway_calls[Len(gateway_calls)].node = "content_generator"

C28_StructuredContentAndResponse ==
    (Returned /\ result.success)
    => LET last == state.messages[Len(state.messages)] IN
       /\ result.content_history = state.content_history
       /\ (result.structured_content # None) <=> ItemAppended
       /\ ~ItemAppended => state.content_history = GivenHistory
       /\ ItemAppended
          => result.structured_content
                = result.content_history[Len(result.content_history)].data
       /\ Len(state.messages) \in {MessagesGiven + 1, MessagesGiven + 2}
       /\ last.type = "ai"
       /\ result.response = last.content
       /\ SynthesisAttempted
          => /\ Len(state.messages) = MessagesGiven + 2
             /\ ItemAppended \/ result.response = SynthesisFallback
       /\ ~SynthesisAttempted
          => /\ Len(state.messages) = MessagesGiven + 1
             /\ \E reply \in DialogueReplies :
                   result.response \in {reply.text, DialogueDefaultText, DialogueFallback}

C28_Witness ==
    /\ Returned /\ result.success
    /\ turn = 2
    /\ ItemAppended
    /\ SynthesisAttempted
    /\ result.structured_content = FullJsonValue
    /\ Len(result.content_history) = 2

-----------------------------------------------------------------------------
(* C29: search never returns more than top_k payloads on any path (scroll
   fallback, raw similarity, rerank success, rerank failure) when the index
   and the reranker honour the limit they are given; on the raw-similarity
   and rerank-failure paths it returns exactly min(top_k, number of
   candidates the index returned), so a top_k above n_candidates yields at
   most n_candidates results. *)

RerankHonoursLimit ==
    retrieval.rerank_reply # None
    => \/ retrieval.rerank_reply.raised
       \/ Len(retrieval.rerank_reply.idxs) <= retrieval.top_k

RawSimilarityPath == Called("search") /\ ~Called("rerank")

\* the except branch of the rerank block was taken
RerankFailurePath ==
    /\ Called("rerank")
    /\ \/ retrieval.rerank_reply.raised
       \/ \E k \in 1..Len(retrieval.rerank_reply.idxs) :
             retrieval.rerank_reply.idxs[k] >= Len(retrieval.results)
       \/ \E k \in 1..Len(retrieval.rerank_reply.idxs) :
             retrieval.rerank_reply.idxs[k] < 0 - Len(retrieval.results)

C29_AtMostTopK ==
    (SearchDone /\ ~retrieval.outcome.raised)
    => LET returned == Len(retrieval.outcome.value)
           candidates == Len(retrieval.results)
           least == IF retrieval.top_k <= candidates THEN retrieval.top_k
                    ELSE candidates
       IN /\ RerankHonoursLimit => returned <= retrieval.top_k
          /\ (RawSimilarityPath \/ RerankFailurePath)
             => /\ returned = least
                /\ returned <= NCandidates

C29_Witness ==
    /\ SearchDone /\ ~retrieval.outcome.raised
    /\ RerankFailurePath
    /\ retrieval.top_k = MaxTopK
    /\ Len(retrieval.results) = NCandidates
    /\ Len(retrieval.outcome.value) = NCandidates

====
